---------------------------- MODULE Spec2Model ----------------------------
(***************************************************************************)
(* A model of the decision-and-control core of RJDCTM/autotrader:          *)
(*   - trailing_stop.py      the four-phase trailing-stop ratchet          *)
(*   - core/risk.py          the pre-trade risk gate and circuit breaker   *)
(*   - core/strategy_manager.py  the capital-bucket ledger                 *)
(*   - core/executor.py      the execution loop                            *)
(*   - autotrader_v5/mancini_monitor.py  the failed-breakdown engine       *)
(* Money is counted in cents and share prices in cents per share, so that  *)
(* round(x, 2) of the source is a rounding to a whole number of cents.     *)
(* Each subsystem has its own specification (SpecTS, SpecRisk, SpecSM,     *)
(* SpecExec, SpecMancini); the variables of the other subsystems stay at   *)
(* their initial values.                                                   *)
(***************************************************************************)
EXTENDS Integers, Sequences, FiniteSets, TLC

VARIABLES
    stops,      \* trailing_stop.py: the stops store (logs/trailing_stops.json)
    tsLast,     \* the last trailing-stop call: operation, ticker, price, record before and after
    page_stops, \* pages/3_Positions.py: the store as the page loaded it, while its run lasts
    riskConfig, \* core/config.py: the RiskConfig the RiskManager was built with
    halted,     \* core/risk.py: RiskManager._halted
    halt_reason,      \* RiskManager._halt_reason (which code path set it)
    daily_pnl_cache,  \* RiskManager._daily_pnl_cache
    account,    \* the AccountInfo snapshot last fetched from the broker
    positions,  \* the broker Position list last fetched
    now,        \* the wall clock, in minutes after midnight
    riskLast,   \* the last RiskManager call: operation, inputs and result
    strategies, \* core/strategy_manager.py: StrategyManager.strategies, per bucket
    sm_positions,   \* StrategyManager.positions, the open-position list
    closed_trades,  \* StrategyManager.closed_trades
    state_file, \* logs/strategy_state.json as last written by _save_state
    smLast,     \* the last StrategyManager call: operation, arguments, outcome
    sm_peer,    \* a second StrategyManager on the same data_dir: its strategies and positions
    exec_pc,    \* core/executor.py: where the Executor is: "top", "signals", "once_signals",
                \* "backoff", "stopped" (after _shutdown) or "aborted" (run left by an exception)
    dry_run,    \* AutoTraderConfig.dry_run
    use_limit_orders,   \* StrategyConfig.use_limit_orders
    pending_signals,    \* Executor._pending_signals
    sig_index,  \* the turn of the loop of _process_signals, 0 outside it
    active_trades,      \* Executor._active_trades, ticker -> signal
    order_tracker,      \* Executor._order_tracker, order id -> ticker
    broker_orders,      \* the orders the broker was asked for, in order
    execLast,   \* the last Executor step: operation and what it decided
    m_engine,   \* autotrader_v5/mancini_monitor.py: ManciniEngine.s, the ManciniState
    m_clock,    \* datetime.now() as the poll loop sees it: time slot and weekend flag
    m_daily_pnl,        \* main's daily_pnl
    m_max_daily_loss,   \* cfg["max_daily_loss"], in cents
    m_entries_today,    \* market buys accepted since the last midnight
    mLast       \* the last step of the poll loop: operation, inputs, broker calls

tsVars == <<stops, tsLast, page_stops>>
riskVars == <<riskConfig, halted, halt_reason, daily_pnl_cache, account, positions, now, riskLast>>
smVars == <<strategies, sm_positions, closed_trades, state_file, smLast, sm_peer>>
execVars == <<exec_pc, dry_run, use_limit_orders, pending_signals, sig_index,
              active_trades, order_tracker, broker_orders, execLast>>
mVars == <<m_engine, m_clock, m_daily_pnl, m_max_daily_loss, m_entries_today, mLast>>
vars == <<stops, tsLast, page_stops, riskConfig, halted, halt_reason, daily_pnl_cache,
          account, positions, now, riskLast,
          strategies, sm_positions, closed_trades, state_file, smLast, sm_peer,
          exec_pc, dry_run, use_limit_orders, pending_signals, sig_index,
          active_trades, order_tracker, broker_orders, execLast,
          m_engine, m_clock, m_daily_pnl, m_max_daily_loss, m_entries_today, mLast>>

(***************************************************************************)
(* Arithmetic helpers                                                      *)
(***************************************************************************)
Max(a, b) == IF a >= b THEN a ELSE b
Min(a, b) == IF a <= b THEN a ELSE b
Abs(a) == IF a >= 0 THEN a ELSE -a

\* round(n / d) for d > 0, a tie going to the even neighbour (Python's round)
RoundDiv(n, d) ==
    LET q == n \div d
        r == n % d
    IN  IF 2 * r > d THEN q + 1
        ELSE IF 2 * r < d THEN q
        ELSE IF q % 2 = 0 THEN q ELSE q + 1

\* int(n / d) for d > 0: truncation toward zero
TruncDiv(n, d) == IF n >= 0 THEN n \div d ELSE -((-n) \div d)

(***************************************************************************)
(* trailing_stop.py                                                        *)
(***************************************************************************)
\* Percentages are in tenths of a percent, trail fractions in thousandths.
PHASE_CONFIGS ==
    [ momentum_breakout |->
        [initial_stop_pct |-> 50, t1_pct |-> 30, t2_pct |-> 60,
         t1_trail |-> 2, t2_trail |-> 500, runaway_trail |-> 700,
         runaway_trigger_mult |-> 2],
      swing |->
        [initial_stop_pct |-> 50, t1_pct |-> 40, t2_pct |-> 80,
         t1_trail |-> 2, t2_trail |-> 500, runaway_trail |-> 700,
         runaway_trigger_mult |-> 2],
      mean_reversion |->
        [initial_stop_pct |-> 40, t1_pct |-> 30, t2_pct |-> 50,
         t1_trail |-> 2, t2_trail |-> 500, runaway_trail |-> 650,
         runaway_trigger_mult |-> 2],
      sector_etf |->
        [initial_stop_pct |-> 50, t1_pct |-> 40, t2_pct |-> 80,
         t1_trail |-> 2, t2_trail |-> 500, runaway_trail |-> 700,
         runaway_trigger_mult |-> 2],
      earnings_run |->
        [initial_stop_pct |-> 30, t1_pct |-> 25, t2_pct |-> 50,
         t1_trail |-> 2, t2_trail |-> 450, runaway_trail |-> 600,
         runaway_trigger_mult |-> 2] ]

Phases == <<"INITIAL", "T1_HIT", "T2_HIT", "RUNAWAY">>

\* the position of a phase in the transition order
PhaseRank(ph) == CHOOSE i \in 1..4 : Phases[i] = ph

\* the tickers, entry prices, strategies and prices the model draws from
TSTickers == {"XLE", "GLD"}
TSEntries == {10000}
TSStrategies == {"earnings_run", "momentum_breakout", "unknown"}
TSPrices == {9000, 10250, 10300, 10400, 10500, 10801, 11000, 11600, 12000}

NoRecord == [phase |-> "NONE"]
NoCall == [op |-> "none"]

\* config = PHASE_CONFIGS.get(strategy, PHASE_CONFIGS["swing"])
ConfigOf(strategy) ==
    IF strategy \in DOMAIN PHASE_CONFIGS THEN PHASE_CONFIGS[strategy]
    ELSE PHASE_CONFIGS["swing"]

\* the record init_position stores for a ticker
init_record(entry_price, strategy) ==
    LET config == ConfigOf(strategy)
        stop_price == RoundDiv(entry_price * (1000 - config.initial_stop_pct), 1000)
        t1_target == RoundDiv(entry_price * (1000 + config.t1_pct), 1000)
        t2_target == RoundDiv(entry_price * (1000 + config.t2_pct), 1000)
        t2_gain == t2_target - entry_price
        runaway_target == entry_price + config.runaway_trigger_mult * t2_gain
    IN  [entry |-> entry_price, stop |-> stop_price, phase |-> "INITIAL",
         strategy |-> strategy, t1_target |-> t1_target, t2_target |-> t2_target,
         runaway_target |-> runaway_target, highest_price |-> entry_price,
         config |-> config]

\* lines 129-132: the running high
NewHighest(pos, price) ==
    IF price > pos.highest_price THEN price ELSE pos.highest_price

\* round(entry + gain_from_entry * frac, 2)
TrailStop(pos, highest, frac) ==
    RoundDiv(pos.entry * 1000 + (highest - pos.entry) * frac, 1000)

\* a T1 check that forgets to look at the phase the record is in
CheckT1AnyPhase(pos, price, st) ==
    IF price >= pos.t1_target
    THEN [phase |-> "T1_HIT",
          stop |-> RoundDiv(pos.entry * (1000 + pos.config.t1_trail), 1000)]
    ELSE st

\* a T1 check that wants the price strictly above the target
CheckT1AboveTarget(pos, price, st) ==
    IF pos.phase = "INITIAL" /\ price > pos.t1_target
    THEN [phase |-> "T1_HIT",
          stop |-> RoundDiv(pos.entry * (1000 + pos.config.t1_trail), 1000)]
    ELSE st

\* lines 137-143: INITIAL -> T1_HIT, stop to breakeven plus a small buffer
CheckT1(pos, price, st) ==
    IF pos.phase = "INITIAL" /\ price >= pos.t1_target
    THEN [phase |-> "T1_HIT",
          stop |-> RoundDiv(pos.entry * (1000 + pos.config.t1_trail), 1000)]
    ELSE st

\* a T2 check that only looks at the phase the record was stored in, so that
\* a price past both targets takes two calls to reach T2_HIT
CheckT2StoredPhaseOnly(pos, price, highest, st) ==
    IF pos.phase = "T1_HIT" /\ price >= pos.t2_target
    THEN [phase |-> "T2_HIT", stop |-> TrailStop(pos, highest, pos.config.t2_trail)]
    ELSE st

\* lines 145-152: T1_HIT -> T2_HIT
CheckT2(pos, price, highest, st) ==
    IF /\ (pos.phase = "T1_HIT" \/ (pos.phase = "INITIAL" /\ st.phase = "T1_HIT"))
       /\ (st.phase = "T1_HIT" \/ pos.phase = "T1_HIT")
       /\ price >= pos.t2_target
    THEN [phase |-> "T2_HIT", stop |-> TrailStop(pos, highest, pos.config.t2_trail)]
    ELSE st

\* a runaway check that only looks at the phase the record was stored in
CheckRunawayStoredPhaseOnly(pos, price, highest, st) ==
    IF pos.phase = "T2_HIT" /\ price >= pos.runaway_target
    THEN [phase |-> "RUNAWAY",
          stop |-> TrailStop(pos, highest, pos.config.runaway_trail)]
    ELSE st

\* lines 154-161: T2_HIT -> RUNAWAY
CheckRunaway(pos, price, highest, st) ==
    IF /\ (pos.phase = "T2_HIT" \/ st.phase = "T2_HIT")
       /\ (st.phase \in {"T2_HIT"} \/ pos.phase = "T2_HIT")
       /\ price >= pos.runaway_target
    THEN [phase |-> "RUNAWAY",
          stop |-> TrailStop(pos, highest, pos.config.runaway_trail)]
    ELSE st

\* a T2_HIT phase whose stop stays where the transition put it
TrailT2Frozen(pos, highest, st) == st

\* lines 164-168: trailing inside T2_HIT
TrailT2(pos, highest, st) ==
    IF st.phase = "T2_HIT" /\ pos.phase = "T2_HIT"
    THEN LET trail_stop == TrailStop(pos, highest, pos.config.t2_trail)
         IN  IF trail_stop > pos.stop THEN [st EXCEPT !.stop = trail_stop] ELSE st
    ELSE st

\* lines 170-175: trailing inside RUNAWAY
TrailRunaway(pos, highest, st) ==
    IF st.phase = "RUNAWAY" \/ pos.phase = "RUNAWAY"
    THEN LET trail_stop == TrailStop(pos, highest, pos.config.runaway_trail)
         IN  [phase |-> "RUNAWAY",
              stop |-> IF trail_stop > st.stop THEN trail_stop ELSE st.stop]
    ELSE st

\* lines 133-175: the phase and the stop before the final ratchet
PhaseAndStop(pos, price) ==
    LET highest == NewHighest(pos, price)
        s0 == [phase |-> pos.phase, stop |-> pos.stop]
        s1 == CheckT1(pos, price, s0)
        s2 == CheckT2(pos, price, highest, s1)
        s3 == CheckRunaway(pos, price, highest, s2)
        s4 == TrailT2(pos, highest, s3)
    IN  TrailRunaway(pos, highest, s4)

\* a trailing stop that follows the current price in the trailing phases
\* and is stored as computed, without the ratchet
update_stop_follow_price(pos, price) ==
    LET st == PhaseAndStop(pos, price)
        frac == IF st.phase = "RUNAWAY" THEN pos.config.runaway_trail
                ELSE pos.config.t2_trail
    IN  [pos EXCEPT !.highest_price = NewHighest(pos, price),
                    !.stop = IF st.phase \in {"T2_HIT", "RUNAWAY"}
                             THEN TrailStop(pos, price, frac) ELSE st.stop,
                    !.phase = st.phase]

\* lines 122-184: the record update_stop stores for a tracked ticker
update_stop_record(pos, price) ==
    LET st == PhaseAndStop(pos, price)
    IN  [pos EXCEPT !.highest_price = NewHighest(pos, price),
                    !.stop = Max(st.stop, pos.stop),
                    !.phase = st.phase]

\* no run of the page is under way
NoRun == [loaded |-> FALSE]

TSInit ==
    /\ stops = [t \in TSTickers |-> NoRecord]
    /\ tsLast = NoCall
    /\ page_stops = NoRun

\* init_position(ticker, entry_price, strategy): (re)initialises the record
init_position(t, entry_price, strategy) ==
    /\ stops' = [stops EXCEPT ![t] = init_record(entry_price, strategy)]
    /\ tsLast' = [op |-> "init_position", ticker |-> t]
    /\ UNCHANGED page_stops
    /\ UNCHANGED <<riskVars, smVars, execVars, mVars>>

\* update_stop(ticker, current_price) on a tracked ticker
update_stop(t, price) ==
    /\ stops[t] # NoRecord
    /\ LET new == update_stop_record(stops[t], price)
       IN  /\ stops' = [stops EXCEPT ![t] = new]
           /\ tsLast' = [op |-> "update_stop", ticker |-> t, price |-> price,
                         before |-> stops[t], after |-> new,
                         repeat |-> (/\ tsLast.op = "update_stop"
                                     /\ tsLast.ticker = t
                                     /\ tsLast.price = price),
                         logged_stop |-> (new.stop # stops[t].stop),
                         logged_phase |-> (new.phase # stops[t].phase)]
    /\ UNCHANGED page_stops
    /\ UNCHANGED <<riskVars, smVars, execVars, mVars>>

\* update_stop on a ticker that is not tracked: lines 118-120, nothing changes
update_stop_untracked(t, price) ==
    /\ stops[t] = NoRecord
    /\ stops' = stops
    /\ tsLast' = [op |-> "update_stop_untracked", ticker |-> t]
    /\ UNCHANGED page_stops
    /\ UNCHANGED <<riskVars, smVars, execVars, mVars>>

NextTS ==
    \/ \E t \in TSTickers, e \in TSEntries, s \in TSStrategies : init_position(t, e, s)
    \/ \E t \in TSTickers, p \in TSPrices : update_stop(t, p)
    \/ \E t \in TSTickers, p \in TSPrices : update_stop_untracked(t, p)

\* pages/3_Positions.py lines 51-88: the record the "Update All Stops"
\* handler stores for one ticker with a price
page_update_record(pos, price) ==
    LET highest == NewHighest(pos, price)
        s0 == [phase |-> pos.phase, stop |-> pos.stop]
        s1 == IF pos.phase = "INITIAL" /\ price >= pos.t1_target
              THEN [phase |-> "T1_HIT",
                    stop |-> RoundDiv(pos.entry * (1000 + pos.config.t1_trail), 1000)]
              ELSE s0
        s2 == IF s1.phase = "T1_HIT" /\ price >= pos.t2_target
              THEN [phase |-> "T2_HIT",
                    stop |-> TrailStop(pos, highest, pos.config.t2_trail)]
              ELSE s1
        s3 == IF s2.phase = "T2_HIT" /\ price >= pos.runaway_target
              THEN [phase |-> "RUNAWAY",
                    stop |-> TrailStop(pos, highest, pos.config.runaway_trail)]
              ELSE s2
        trail_pct == IF s3.phase = "RUNAWAY" THEN pos.config.runaway_trail
                     ELSE pos.config.t2_trail
        s4 == IF s3.phase \in {"T2_HIT", "RUNAWAY"}
              THEN [s3 EXCEPT !.stop = Max(s3.stop, TrailStop(pos, highest, trail_pct))]
              ELSE s3
    IN  [pos EXCEPT !.highest_price = highest,
                    !.stop = Max(s4.stop, pos.stop),
                    !.phase = s4.phase]

\* the strategy and the prices of the runs that share the store with the page
PageStrategies == {"earnings_run"}
PagePrices == {10250, 10500, 12000}

\* pages/3_Positions.py lines 35-44: a run of the page reads the whole
\* store; the button is there when the store holds a record
page_load ==
    /\ ~page_stops.loaded
    /\ \E t \in TSTickers : stops[t] # NoRecord
    /\ page_stops' = [loaded |-> TRUE, stops |-> stops]
    /\ tsLast' = [op |-> "page_load"]
    /\ UNCHANGED stops
    /\ UNCHANGED <<riskVars, smVars, execVars, mVars>>

\* pages/3_Positions.py lines 46-92: the handler updates every record of
\* its copy for which the broker has a price (quoted) and writes the whole
\* copy over the store
page_write(quoted, prices) ==
    /\ page_stops.loaded
    /\ stops' = [t \in TSTickers |->
                  IF page_stops.stops[t] # NoRecord /\ t \in quoted
                  THEN page_update_record(page_stops.stops[t], prices[t])
                  ELSE page_stops.stops[t]]
    /\ page_stops' = NoRun
    /\ tsLast' = [op |-> "page_write"]
    /\ UNCHANGED <<riskVars, smVars, execVars, mVars>>

\* the command-line runs and a run of the page on the same store
NextTSPage ==
    \/ \E t \in TSTickers, e \in TSEntries, s \in PageStrategies : init_position(t, e, s)
    \/ \E t \in TSTickers, p \in PagePrices : update_stop(t, p)
    \/ page_load
    \/ \E quoted \in SUBSET TSTickers, prices \in [TSTickers -> PagePrices] :
           page_write(quoted, prices)

(***************************************************************************)
(* core/config.py RiskConfig and core/risk.py RiskManager                  *)
(***************************************************************************)
\* RiskConfig defaults. Money in cents, max_position_pct in percent,
\* daily_loss_halt_pct in hundredths of a percent, default_stop_pct in
\* tenths of a percent.
RiskConfigDefault ==
    [max_position_pct |-> 5,
     min_position_usd |-> 50000,
     max_position_usd |-> 2500000,
     max_open_positions |-> 10,
     daily_loss_halt_pct |-> -300,
     mandatory_stop_loss |-> TRUE,
     default_stop_pct |-> 50,
     no_entry_last_30min |-> TRUE,
     no_entry_first_15min |-> TRUE]

RiskConfigs ==
    {RiskConfigDefault, [RiskConfigDefault EXCEPT !.mandatory_stop_loss = FALSE]}

\* The candidate signals the model draws from. position_size_usd arrives as
\* qty * entry_price, the relation check_signal itself keeps at line 156.
RiskTicker == "XLB"
SignalActions == {"BUY", "SELL"}
SignalEntryPrices == {5000, 60000}
SignalQtys == {1, 10, 1000}
SignalStops == {0, 4750}
SignalTargets == {5500}

Signal(action, entry_price, qty, stop, target) ==
    [ticker |-> RiskTicker, action |-> action, entry_price |-> entry_price,
     qty |-> qty, position_size_usd |-> qty * entry_price,
     stop_loss_price |-> stop, target_1_price |-> target, sector |-> "Materials"]

Signals ==
    {Signal(a, e, q, s, g) : a \in SignalActions, e \in SignalEntryPrices,
                             q \in SignalQtys, s \in SignalStops, g \in SignalTargets}

\* Account snapshots: every equity with every buying power on a quiet day,
\* and one snapshot each for a loss at the halt threshold, a loss beyond it
\* and a blocked account (those checks come before equity is read).
Equities == {1000000, 10000000, 60000000}
BuyingPowers == {0, 1000000, 10000000}

Account(equity, buying_power, pnl_pct, blocked) ==
    [equity |-> equity, buying_power |-> buying_power,
     daily_pnl_pct |-> pnl_pct, is_trading_blocked |-> blocked]

Accounts ==
    {Account(e, b, -50, FALSE) : e \in Equities, b \in BuyingPowers}
    \cup {Account(10000000, 10000000, -300, FALSE),
          Account(10000000, 10000000, -310, FALSE),
          Account(10000000, 10000000, -50, TRUE)}

\* Broker position lists: none, the candidate's ticker held small, held
\* large, and a book that is full of other tickers.
BrokerPosition(ticker, qty, market_value) ==
    [ticker |-> ticker, qty |-> qty, market_value |-> market_value]

PositionLists ==
    {<<>>,
     <<BrokerPosition("XLB", 20, 100000)>>,
     <<BrokerPosition("GLD", 20, 900000), BrokerPosition("XLB", 100, 540000)>>,
     [i \in 1..10 |-> BrokerPosition("GLD", 20, 900000)]}

\* What the environment shows the loop: every account with every position
\* list in the middle of the session, and one quiet snapshot each inside the
\* first 15 and the last 30 minutes (the time window is the last check).
Environments ==
    {[account |-> a, positions |-> p, now |-> 600] : a \in Accounts, p \in PositionLists}
    \cup {[account |-> Account(10000000, 10000000, -50, FALSE), positions |-> <<>>,
           now |-> t] : t \in {580, 940}}

\* lines 282-287: the first position of the ticker, or none
find_position(ticker, poss) ==
    IF \E i \in 1..Len(poss) : poss[i].ticker = ticker
    THEN poss[CHOOSE i \in 1..Len(poss) :
                 /\ poss[i].ticker = ticker
                 /\ \A j \in 1..(i - 1) : poss[j].ticker # ticker]
    ELSE [ticker |-> "NONE"]

\* lines 218-224: the loss that trips the circuit breaker
daily_pnl_breached(cfg, acct) == acct.daily_pnl_pct <= cfg.daily_loss_halt_pct

\* lines 226-240: the sector check never reports anything
check_sector_exposure(sig, acct, poss) == "None"

\* a size validation that sets the quantity to what the percentage cap
\* allows, whether the candidate asked for more or for less
validate_position_size_to_cap(cfg, sig, acct) ==
    LET max_usd == (acct.equity * cfg.max_position_pct) \div 100
    IN  [signal |-> [sig EXCEPT !.position_size_usd = max_usd,
                                !.qty = IF sig.entry_price > 0
                                        THEN TruncDiv(max_usd, sig.entry_price)
                                        ELSE sig.qty],
         note |-> "size_reduced_pct_of_equity"]

\* lines 242-262: the size caps; the signal as adjusted and the note returned
validate_position_size(cfg, sig, acct) ==
    LET max_usd == (acct.equity * cfg.max_position_pct) \div 100
    IN  IF sig.position_size_usd > max_usd
        THEN [signal |-> [sig EXCEPT !.position_size_usd = max_usd,
                                     !.qty = IF sig.entry_price > 0
                                             THEN TruncDiv(max_usd, sig.entry_price)
                                             ELSE sig.qty],
              note |-> "size_reduced_pct_of_equity"]
        ELSE IF sig.position_size_usd > cfg.max_position_usd
        THEN [signal |-> [sig EXCEPT !.position_size_usd = cfg.max_position_usd,
                                     !.qty = IF sig.entry_price > 0
                                             THEN TruncDiv(cfg.max_position_usd,
                                                           sig.entry_price)
                                             ELSE sig.qty],
              note |-> "size_capped_hard_limit"]
        ELSE [signal |-> sig, note |-> "None"]

\* lines 264-280: the time window
check_time_window(cfg, t) ==
    IF cfg.no_entry_first_15min /\ t < 585 THEN "too_early"
    ELSE IF cfg.no_entry_last_30min /\ t > 930 THEN "too_late"
    ELSE "None"

\* a stop check that leaves the signal as it came
apply_mandatory_stop_skipped(cfg, sig) ==
    [signal |-> sig, adjusted |-> FALSE]

\* lines 137-147: the mandatory stop
apply_mandatory_stop(cfg, sig) ==
    IF /\ cfg.mandatory_stop_loss
       /\ sig.stop_loss_price <= 0
       /\ sig.action \in {"BUY", "SCALE_IN"}
    THEN [signal |-> [sig EXCEPT !.stop_loss_price =
                        RoundDiv(sig.entry_price * (1000 - cfg.default_stop_pct), 1000)],
          adjusted |-> TRUE]
    ELSE [signal |-> sig, adjusted |-> FALSE]

\* a buying-power cut that rounds the share count up instead of down
max_shares_no_buffer(buying_power, entry_price) ==
    TruncDiv(buying_power, entry_price) + 1

\* line 153: int(buying_power * 0.95 / entry_price)
max_shares(buying_power, entry_price) ==
    TruncDiv(buying_power * 19, 20 * entry_price)

Rejected(sig, reasons, original_qty, h, hr) ==
    [approved |-> FALSE, signal |-> sig, reasons |-> reasons, adjustments |-> <<>>,
     original_qty |-> original_qty, adjusted_qty |-> 0,
     halted |-> h, halt_reason |-> hr]

NoteSeq(note) == IF note = "None" THEN <<>> ELSE <<note>>

\* lines 127-191: checks 6 to 11, on a signal that passed checks 1 to 5
check_size_stop_cash(cfg, sig, acct, poss, t, reasons, adjustments, original_qty, h, hr) ==
    LET sector == check_sector_exposure(sig, acct, poss)
        size == validate_position_size(cfg, sig, acct)
        stop == apply_mandatory_stop(cfg, size.signal)
        adj8 == adjustments \o NoteSeq(sector) \o NoteSeq(size.note)
                    \o (IF stop.adjusted THEN <<"auto_stop">> ELSE <<>>)
        sig8 == stop.signal
        required_cash == sig8.qty * sig8.entry_price
        over == required_cash > acct.buying_power
        shares == max_shares(acct.buying_power, sig8.entry_price)
        sig9 == IF over /\ shares > 0
                THEN [sig8 EXCEPT !.qty = shares,
                                  !.position_size_usd = shares * sig8.entry_price]
                ELSE sig8
        adj9 == IF over /\ shares > 0 THEN adj8 \o <<"reduced_to_buying_power">> ELSE adj8
        time_check == check_time_window(cfg, t)
    IN  IF over /\ ~(shares > 0)
        THEN Rejected(sig8, <<"insufficient_buying_power">>, original_qty, h, hr)
        ELSE IF sig9.position_size_usd < cfg.min_position_usd
        THEN Rejected(sig9, <<"position_too_small">>, original_qty, h, hr)
        ELSE IF time_check # "None"
        THEN Rejected(sig9, <<time_check>>, original_qty, h, hr)
        ELSE [approved |-> TRUE, signal |-> sig9,
              reasons |-> reasons \o <<"all_checks_passed">>,
              adjustments |-> adj9, original_qty |-> original_qty,
              adjusted_qty |-> sig9.qty, halted |-> h, halt_reason |-> hr]

\* a halt gate that is never closed
halt_gate_open(h) == FALSE

\* line 76: the circuit-breaker gate
halt_gate(h) == h

\* lines 61-191: check_signal; the result, with the halt flag and reason the
\* call leaves in the RiskManager
check_signal_result(cfg, h, hr, sig, acct, poss, t) ==
    LET original_qty == sig.qty
        existing == find_position(sig.ticker, poss)
    IN  IF halt_gate(h)
        THEN Rejected(sig, <<"trading_halted">>, original_qty, h, hr)
        ELSE IF daily_pnl_breached(cfg, acct)
        THEN Rejected(sig, <<"daily_loss_halt">>, original_qty, TRUE, "check_daily_pnl")
        ELSE IF acct.is_trading_blocked
        THEN Rejected(sig, <<"trading_blocked">>, original_qty, h, hr)
        ELSE IF Len(poss) >= cfg.max_open_positions /\ sig.action = "BUY"
        THEN Rejected(sig, <<"max_positions_reached">>, original_qty, h, hr)
        ELSE IF existing.ticker # "NONE" /\ sig.action = "BUY"
        THEN \* current_exposure = market_value / equity * 100 < max_position_pct * 0.6
             IF existing.market_value * 500 < acct.equity * cfg.max_position_pct * 3
             THEN check_size_stop_cash(cfg, [sig EXCEPT !.action = "SCALE_IN"], acct,
                                       poss, t, <<"already_holding">>,
                                       <<"converted_to_scale_in">>, original_qty, h, hr)
             ELSE Rejected(sig, <<"already_holding", "position_at_max">>,
                           original_qty, h, hr)
        ELSE check_size_stop_cash(cfg, sig, acct, poss, t, <<>>, <<>>,
                                  original_qty, h, hr)

\* a P&L update that re-evaluates the halt on every call
halted_after_update_reevaluated(cfg, h, acct) == daily_pnl_breached(cfg, acct)

\* lines 199-205: the halt flag update_daily_pnl leaves
halted_after_update(cfg, h, acct) ==
    IF daily_pnl_breached(cfg, acct) THEN TRUE ELSE h

RiskInit ==
    /\ riskConfig \in RiskConfigs
    /\ halted = FALSE
    /\ halt_reason = ""
    /\ daily_pnl_cache = 0
    /\ account = Account(10000000, 10000000, -50, FALSE)
    /\ positions = <<>>
    /\ now = 600
    /\ riskLast = NoCall

\* time passes and the broker reports a new account snapshot and position list
BrokerSnapshot(env) ==
    /\ account' = env.account
    /\ positions' = env.positions
    /\ now' = env.now
    /\ riskLast' = NoCall
    /\ UNCHANGED <<riskConfig, halted, halt_reason, daily_pnl_cache>>
    /\ UNCHANGED <<tsVars, smVars, execVars, mVars>>

\* RiskManager.check_signal(signal, account, positions)
check_signal(sig) ==
    LET r == check_signal_result(riskConfig, halted, halt_reason, sig,
                                 account, positions, now)
    IN  /\ halted' = r.halted
        /\ halt_reason' = r.halt_reason
        /\ riskLast' = [op |-> "check_signal", signal_in |-> sig,
                        halted_before |-> halted, result |-> r]
        /\ UNCHANGED <<riskConfig, daily_pnl_cache, account, positions, now>>
        /\ UNCHANGED <<tsVars, smVars, execVars, mVars>>

\* RiskManager.update_daily_pnl(account)
update_daily_pnl ==
    /\ daily_pnl_cache' = account.daily_pnl_pct
    /\ halted' = halted_after_update(riskConfig, halted, account)
    /\ halt_reason' = IF daily_pnl_breached(riskConfig, account)
                      THEN "update_daily_pnl" ELSE halt_reason
    /\ riskLast' = [op |-> "update_daily_pnl", halted_before |-> halted]
    /\ UNCHANGED <<riskConfig, account, positions, now>>
    /\ UNCHANGED <<tsVars, smVars, execVars, mVars>>

\* RiskManager.reset_halt()
reset_halt ==
    /\ halted' = FALSE
    /\ halt_reason' = ""
    /\ riskLast' = [op |-> "reset_halt", halted_before |-> halted]
    /\ UNCHANGED <<riskConfig, daily_pnl_cache, account, positions, now>>
    /\ UNCHANGED <<tsVars, smVars, execVars, mVars>>

NextRisk ==
    \/ \E env \in Environments : BrokerSnapshot(env)
    \/ \E sig \in Signals : check_signal(sig)
    \/ update_daily_pnl
    \/ reset_halt


(***************************************************************************)
(* core/strategy_manager.py StrategyManager                                *)
(***************************************************************************)
\* Two of the buckets of build_default_strategies. Capital in cents,
\* max_position_pct in percent, max_risk_per_trade_pct (2.0 and 1.5) and
\* max_drawdown in tenths of a percent.
StrategyIDs == {"short_momentum", "sector_etf"}

DefaultStrategies ==
    [sid \in StrategyIDs |->
        [starting_capital |-> 1000000, current_capital |-> 1000000,
         max_positions |-> IF sid = "short_momentum" THEN 4 ELSE 3,
         max_position_pct |-> IF sid = "short_momentum" THEN 30 ELSE 40,
         max_risk_per_trade_pct |-> IF sid = "short_momentum" THEN 20 ELSE 15,
         reinvest_profits |-> TRUE,
         total_trades |-> 0, winning_trades |-> 0, total_realized_pnl |-> 0,
         peak_capital |-> 1000000, max_drawdown |-> 0]]

\* the most open_position calls that succeed in one run of the model
MaxTrades == 3

\* the most open_position calls that succeed in a run long enough to hold
\* more positions in a bucket than the smallest max_positions (3)
MaxTradesToFill == 4

\* what the calls are made with: $3,000 and $4,000 positions at $50, closed
\* at a loss or a gain, fully or 50 shares at a time; a close quantity of 0
\* stands for the omitted argument too (close_qty = qty or pos.remaining_qty)
SMTickers == {"XLE"}
SMEntryPrices == {5000}
SMQtys == {60, 80}
SMExitPrices == {4000, 6000}
SMCloseQtys == {0, 50}

\* lines 226-254: TrackedPosition(ticker, strategy_id, entry_price, qty)
TrackedPosition(ticker, sid, entry_price, qty) ==
    [ticker |-> ticker, strategy_id |-> sid, entry_price |-> entry_price,
     qty |-> qty, cost_basis |-> entry_price * qty, status |-> "open",
     realized_pnl |-> 0, remaining_qty |-> qty]

NewPositions ==
    {TrackedPosition(t, sid, e, q) : t \in SMTickers, sid \in StrategyIDs,
                                     e \in SMEntryPrices, q \in SMQtys}

RECURSIVE SumCost(_)
SumCost(poss) ==
    IF poss = <<>> THEN 0 ELSE Head(poss).cost_basis + SumCost(Tail(poss))

\* the positions of a bucket whose status is one of the given ones, in order
RECURSIVE PositionsOf(_, _, _)
PositionsOf(poss, sid, statuses) ==
    IF poss = <<>> THEN <<>>
    ELSE IF Head(poss).strategy_id = sid /\ Head(poss).status \in statuses
    THEN <<Head(poss)>> \o PositionsOf(Tail(poss), sid, statuses)
    ELSE PositionsOf(Tail(poss), sid, statuses)

\* the positions of a bucket with status "open"
OpenOf(poss, sid) == PositionsOf(poss, sid, {"open"})

\* every position of a bucket still held, open or partly closed
HeldOf(poss, sid) == PositionsOf(poss, sid, {"open", "partial"})

\* lines 299-306
get_available_capital(strats, poss, sid) ==
    Max(0, strats[sid].current_capital - SumCost(OpenOf(poss, sid)))

\* lines 308-313
get_position_count(poss, sid) == Len(OpenOf(poss, sid))

\* a check that always lets the position in
can_open_position_always(strats, poss, sid, cost) == "OK"

\* lines 315-334: "OK" or what blocks the position
can_open_position(strats, poss, sid, cost) ==
    IF get_position_count(poss, sid) >= strats[sid].max_positions
    THEN "max_positions_reached"
    ELSE IF cost > get_available_capital(strats, poss, sid)
    THEN "insufficient_capital"
    ELSE IF cost * 100 > strats[sid].current_capital * strats[sid].max_position_pct
    THEN "position_too_large"
    ELSE "OK"

\* lines 548-596: what _save_state writes
SavedClosed(p) ==
    [ticker |-> p.ticker, strategy_id |-> p.strategy_id,
     entry_price |-> p.entry_price, qty |-> p.qty, realized_pnl |-> p.realized_pnl]

LastN(seq, n) ==
    IF Len(seq) <= n THEN seq ELSE SubSeq(seq, Len(seq) - n + 1, Len(seq))

save_state(strats, poss, closed) ==
    [strategies |->
        [sid \in StrategyIDs |->
            [current_capital |-> strats[sid].current_capital,
             total_trades |-> strats[sid].total_trades,
             winning_trades |-> strats[sid].winning_trades,
             total_realized_pnl |-> strats[sid].total_realized_pnl,
             peak_capital |-> strats[sid].peak_capital,
             max_drawdown |-> strats[sid].max_drawdown]],
     positions |-> poss,
     closed_trades |-> LET kept == LastN(closed, 100)
                       IN  [i \in 1..Len(kept) |-> SavedClosed(kept[i])]]

\* lines 650-654: the index of the first open or partial position of the ticker, or 0
find_tracked(poss, ticker) ==
    IF \E i \in 1..Len(poss) : poss[i].ticker = ticker /\ poss[i].status \in {"open", "partial"}
    THEN CHOOSE i \in 1..Len(poss) :
            /\ poss[i].ticker = ticker /\ poss[i].status \in {"open", "partial"}
            /\ \A j \in 1..(i - 1) :
                  ~(poss[j].ticker = ticker /\ poss[j].status \in {"open", "partial"})
    ELSE 0

RemoveAt(seq, i) == SubSeq(seq, 1, i - 1) \o SubSeq(seq, i + 1, Len(seq))

\* a full close that books the P&L but leaves the bucket's capital alone
profile_after_close_stats_only(profile, realized) ==
    [profile EXCEPT !.total_realized_pnl = @ + realized,
                    !.winning_trades = IF realized > 0 THEN @ + 1 ELSE @]

\* a full close that adds gains to the bucket's capital and forgets losses
profile_after_close_gains_only(profile, realized) ==
    LET capital == IF profile.reinvest_profits /\ realized > 0
                   THEN profile.current_capital + realized
                   ELSE profile.current_capital
        peak == IF capital > profile.peak_capital THEN capital ELSE profile.peak_capital
        dd == ((peak - capital) * 1000) \div peak
    IN  [profile EXCEPT
            !.total_realized_pnl = @ + realized,
            !.winning_trades = IF realized > 0 THEN @ + 1 ELSE @,
            !.current_capital = capital,
            !.peak_capital = peak,
            !.max_drawdown = IF dd > @ THEN dd ELSE @]

\* lines 378-395: the bucket after one of its positions is fully closed
profile_after_close(profile, realized) ==
    LET capital == IF profile.reinvest_profits
                   THEN profile.current_capital + realized
                   ELSE profile.current_capital
        peak == IF capital > profile.peak_capital THEN capital ELSE profile.peak_capital
        dd == ((peak - capital) * 1000) \div peak
    IN  [profile EXCEPT
            !.total_realized_pnl = @ + realized,
            !.winning_trades = IF realized > 0 THEN @ + 1 ELSE @,
            !.current_capital = capital,
            !.peak_capital = peak,
            !.max_drawdown = IF dd > @ THEN dd ELSE @]

\* no second StrategyManager is running
NoPeer == [running |-> FALSE]

SMInit ==
    /\ strategies = DefaultStrategies
    /\ sm_positions = <<>>
    /\ closed_trades = <<>>
    /\ state_file = [strategies |-> <<>>, positions |-> <<>>, closed_trades |-> <<>>]
    /\ smLast = NoCall
    /\ sm_peer = NoPeer

TotalTrades ==
    strategies["short_momentum"].total_trades + strategies["sector_etf"].total_trades

\* lines 338-351: open_position(position), in a run of at most cap
\* positions opened
open_position_upto(position, cap) ==
    LET reason == can_open_position(strategies, sm_positions,
                                    position.strategy_id, position.cost_basis)
    IN  /\ TotalTrades < cap
        /\ smLast' = [op |-> "open_position", position |-> position, ok |-> (reason = "OK")]
        /\ IF reason # "OK"
           THEN UNCHANGED <<strategies, sm_positions, closed_trades, state_file>>
           ELSE /\ sm_positions' = Append(sm_positions, position)
                /\ strategies' = [strategies EXCEPT
                                     ![position.strategy_id].total_trades = @ + 1]
                /\ state_file' = save_state(strategies', sm_positions', closed_trades)
                /\ UNCHANGED closed_trades
        /\ UNCHANGED sm_peer
        /\ UNCHANGED <<tsVars, riskVars, execVars, mVars>>

open_position(position) == open_position_upto(position, MaxTrades)

\* lines 353-404: close_position(ticker, exit_price, qty)
close_position(ticker, exit_price, qty) ==
    LET i == find_tracked(sm_positions, ticker) IN
    /\ i # 0
    /\ LET pos == sm_positions[i]
           wanted == IF qty = 0 THEN pos.remaining_qty ELSE qty
           close_qty == Min(wanted, pos.remaining_qty)
           pnl == (exit_price - pos.entry_price) * close_qty
           realized == pos.realized_pnl + pnl
           remaining == pos.remaining_qty - close_qty
       IN  /\ IF remaining <= 0
              THEN /\ sm_positions' = RemoveAt(sm_positions, i)
                   /\ closed_trades' = Append(closed_trades,
                          [pos EXCEPT !.realized_pnl = realized,
                                      !.remaining_qty = remaining,
                                      !.status = "closed"])
                   /\ strategies' = [strategies EXCEPT ![pos.strategy_id] =
                                        profile_after_close(@, realized)]
              ELSE /\ sm_positions' = [sm_positions EXCEPT ![i] =
                          [pos EXCEPT !.realized_pnl = realized,
                                      !.remaining_qty = remaining,
                                      !.status = "partial"]]
                   /\ UNCHANGED <<closed_trades, strategies>>
           /\ state_file' = save_state(strategies', sm_positions', closed_trades')
           /\ smLast' = [op |-> "close_position", ticker |-> ticker, qty |-> qty,
                         pnl |-> pnl, full |-> (remaining <= 0)]
    /\ UNCHANGED sm_peer
    /\ UNCHANGED <<tsVars, riskVars, execVars, mVars>>

\* close_position on a ticker with no open or partial position: lines 360-362
close_position_not_found(ticker) ==
    /\ find_tracked(sm_positions, ticker) = 0
    /\ smLast' = [op |-> "close_position_not_found", ticker |-> ticker]
    /\ UNCHANGED <<strategies, sm_positions, closed_trades, state_file, sm_peer>>
    /\ UNCHANGED <<tsVars, riskVars, execVars, mVars>>

\* lines 237-241: what __post_init__ makes of a position built from the file
LoadedPosition(p) ==
    [p EXCEPT !.remaining_qty = IF @ = 0 THEN p.qty ELSE @,
              !.cost_basis = IF @ = 0 THEN p.entry_price * p.qty ELSE @]

\* lines 598-646: what _load_state leaves in an allocator just constructed
\* (lines 288-290: the default buckets, no position, no closed trade). The
\* file's "strategies" and "positions" are read; its "closed_trades" are not.
load_state(file) ==
    IF file.strategies = <<>>
    THEN [strategies |-> DefaultStrategies, positions |-> <<>>, closed_trades |-> <<>>]
    ELSE [strategies |->
             [sid \in StrategyIDs |->
                 [DefaultStrategies[sid] EXCEPT
                     !.current_capital = file.strategies[sid].current_capital,
                     !.total_trades = file.strategies[sid].total_trades,
                     !.winning_trades = file.strategies[sid].winning_trades,
                     !.total_realized_pnl = file.strategies[sid].total_realized_pnl,
                     !.peak_capital = file.strategies[sid].peak_capital,
                     !.max_drawdown = file.strategies[sid].max_drawdown]],
          positions |-> [i \in 1..Len(file.positions) |->
                            LoadedPosition(file.positions[i])],
          closed_trades |-> <<>>]

\* lines 286-295: the process ends and a new StrategyManager is constructed
\* on the same data_dir
restart ==
    LET loaded == load_state(state_file)
    IN  /\ strategies' = loaded.strategies
        /\ sm_positions' = loaded.positions
        /\ closed_trades' = loaded.closed_trades
        /\ smLast' = [op |-> "restart"]
        /\ UNCHANGED <<state_file, sm_peer>>
        /\ UNCHANGED <<tsVars, riskVars, execVars, mVars>>

NextSM ==
    \/ restart
    \/ \E position \in NewPositions : open_position(position)
    \/ \E t \in SMTickers, x \in SMExitPrices, q \in SMCloseQtys : close_position(t, x, q)
    \/ \E t \in SMTickers : close_position_not_found(t)

\* a quantity argument below zero
SMNegativeQtys == {-10}

\* opens and closes with any quantity argument; a negative quantity is
\* passed as the first close of a position only, which keeps the quantities
\* and the booked amounts of the run bounded
NextSMAnyQty ==
    \/ \E position \in NewPositions : open_position(position)
    \/ \E t \in SMTickers, x \in SMExitPrices, q \in SMCloseQtys : close_position(t, x, q)
    \/ \E t \in SMTickers, x \in SMExitPrices, q \in SMNegativeQtys :
          /\ find_tracked(sm_positions, t) # 0
          /\ sm_positions[find_tracked(sm_positions, t)].status = "open"
          /\ close_position(t, x, q)
    \/ \E t \in SMTickers : close_position_not_found(t)

\* lines 286-295: a second process constructs its own StrategyManager on
\* the same data_dir and loads the ledger as the file has it; base is the
\* number of positions it found there
peer_construct ==
    LET loaded == load_state(state_file)
    IN  /\ ~sm_peer.running
        /\ sm_peer' = [running |-> TRUE, strategies |-> loaded.strategies,
                       positions |-> loaded.positions, base |-> Len(loaded.positions)]
        /\ smLast' = [op |-> "peer_construct"]
        /\ UNCHANGED <<strategies, sm_positions, closed_trades, state_file>>
        /\ UNCHANGED <<tsVars, riskVars, execVars, mVars>>

\* lines 338-351: open_position(position) in the second process, on its own
\* copy of the ledger; _save_state writes that copy over the file
peer_open_position(position) ==
    LET sid == position.strategy_id
        reason == can_open_position(sm_peer.strategies, sm_peer.positions,
                                    sid, position.cost_basis)
        opened == [sm_peer EXCEPT !.positions = Append(@, position),
                                  !.strategies[sid].total_trades = @ + 1]
    IN  /\ sm_peer.running
        /\ sm_peer.strategies["short_momentum"].total_trades
              + sm_peer.strategies["sector_etf"].total_trades < MaxTrades
        /\ smLast' = [op |-> "peer_open_position", position |-> position,
                      ok |-> (reason = "OK")]
        /\ IF reason # "OK"
           THEN UNCHANGED <<sm_peer, state_file>>
           ELSE /\ sm_peer' = opened
                /\ state_file' = save_state(opened.strategies, opened.positions, <<>>)
        /\ UNCHANGED <<strategies, sm_positions, closed_trades>>
        /\ UNCHANGED <<tsVars, riskVars, execVars, mVars>>

\* two processes opening positions on the same ledger
NextSMPeers ==
    \/ peer_construct
    \/ \E position \in NewPositions : open_position(position)
    \/ \E position \in NewPositions : peer_open_position(position)

\* the same calls in a run of up to MaxTradesToFill positions
NextSMFill ==
    \/ restart
    \/ \E position \in NewPositions : open_position_upto(position, MaxTradesToFill)
    \/ \E t \in SMTickers, x \in SMExitPrices, q \in SMCloseQtys : close_position(t, x, q)
    \/ \E t \in SMTickers : close_position_not_found(t)

(***************************************************************************)
(* core/executor.py Executor                                               *)
(***************************************************************************)
\* the most orders the broker is asked for in one run of the model: a signal
\* is queued, a cycle is cut short and a held position times out only while
\* the orders sent and the signals waiting leave room for one more
MaxOrders == 2

Room == MaxOrders - Len(broker_orders) - Len(pending_signals)

\* the signals that are queued: a buy far above the size cap with a target,
\* a small buy without a target, and a sell
ExecSignals ==
    {Signal("BUY", 5000, 1000, 0, 5500),
     Signal("BUY", 5000, 20, 4750, 0),
     Signal("SELL", 5000, 10, 0, 0)}

\* what the broker shows the loop: a quiet session with cash, one with little
\* cash and the ticker already held, and a loss past the halt threshold
ExecEnvironments ==
    {[account |-> Account(10000000, 1000000, -50, FALSE), positions |-> <<>>, now |-> 600],
     [account |-> Account(10000000, 100000, -50, FALSE),
      positions |-> <<BrokerPosition("XLB", 20, 100000)>>, now |-> 600],
     [account |-> Account(10000000, 1000000, -310, FALSE), positions |-> <<>>, now |-> 600]}

EntryKinds == {"bracket", "limit", "market"}

NoOrder == [kind |-> "none"]

\* lines 319-347: the broker request _execute_signal makes for a signal
execute_signal(sig, limit_orders) ==
    IF sig.action \in {"BUY", "SCALE_IN"}
    THEN [kind |-> IF limit_orders
                   THEN IF sig.target_1_price > 0 /\ sig.stop_loss_price > 0
                        THEN "bracket" ELSE "limit"
                   ELSE "market",
          ticker |-> sig.ticker, qty |-> sig.qty]
    ELSE IF sig.action \in {"SELL", "CLOSE"}
    THEN [kind |-> "close", ticker |-> sig.ticker, qty |-> 0]
    ELSE NoOrder

\* an execution gate that ignores the dry-run flag
should_execute_in_dry_run(result, dry) == result.approved

\* an execution gate that ignores the verdict of the risk check
should_execute_any(result, dry) == ~dry

\* lines 283 and 290: the signal goes to the broker only if the check
\* approved it and the run is not a dry run
should_execute(result, dry) == result.approved /\ ~dry

\* the broker's order book after a request: accepted, or answered with an error
Submitted(orders, request, accepted) ==
    Append(orders, [kind |-> request.kind, ticker |-> request.ticker,
                    qty |-> request.qty,
                    status |-> IF accepted THEN "accepted" ELSE "error"])

\* broker.cancel_order on every accepted entry order, when they have timed
\* out (lines 351-368) or at shutdown (line 377)
CancelEntries(orders, stale) ==
    [i \in 1..Len(orders) |->
        IF stale /\ orders[i].status = "accepted" /\ orders[i].kind \in EntryKinds
        THEN [orders[i] EXCEPT !.status = "cancelled"]
        ELSE orders[i]]

\* lines 245-269: the tickers _monitor_positions closes, as a sequence in the
\* order of the position list
RECURSIVE TimeExits(_, _, _)
TimeExits(poss, active, expired) ==
    IF poss = <<>> THEN <<>>
    ELSE IF Head(poss).ticker \in DOMAIN active /\ expired
    THEN <<Head(poss).ticker>> \o TimeExits(Tail(poss), active, expired)
    ELSE TimeExits(Tail(poss), active, expired)

RECURSIVE ClosedAll(_, _)
ClosedAll(orders, tickers) ==
    IF tickers = <<>> THEN orders
    ELSE ClosedAll(Submitted(orders, [kind |-> "close", ticker |-> Head(tickers), qty |-> 0],
                             TRUE),
                   Tail(tickers))

\* dict[key] = value
Put(dict, key, value) ==
    [k \in DOMAIN dict \cup {key} |-> IF k = key THEN value ELSE dict[k]]

\* core/config.py lines 103 and 165: the defaults of the two switches
ExecConfigDefault == dry_run = FALSE /\ use_limit_orders = TRUE

ExecConfigAny ==
    /\ dry_run \in BOOLEAN
    /\ use_limit_orders \in (IF dry_run THEN {TRUE} ELSE BOOLEAN)

ExecInit ==
    /\ exec_pc = "top"
    /\ pending_signals = <<>>
    /\ sig_index = 0
    /\ active_trades = <<>>
    /\ order_tracker = <<>>
    /\ broker_orders = <<>>
    /\ execLast = NoCall

\* lines 151-159: add_manual_signal(signal), between two cycles
add_manual_signal(sig) ==
    /\ exec_pc = "top"
    /\ Room > 0
    /\ pending_signals' = Append(pending_signals, sig)
    /\ execLast' = [op |-> "add_manual_signal"]
    /\ UNCHANGED <<exec_pc, dry_run, use_limit_orders, sig_index, active_trades,
                   order_tracker, broker_orders>>
    /\ UNCHANGED <<tsVars, riskVars, smVars, mVars>>

\* lines 171-175: the market is closed, the loop sleeps a minute
market_closed ==
    /\ exec_pc = "top"
    /\ execLast' = [op |-> "market_closed"]
    /\ UNCHANGED riskVars
    /\ UNCHANGED <<exec_pc, dry_run, use_limit_orders, pending_signals, sig_index,
                   active_trades, order_tracker, broker_orders>>
    /\ UNCHANGED <<tsVars, smVars, mVars>>

\* lines 177-200: a cycle up to the signal loop, and to its end when the
\* loop is skipped
cycle_start(env, expired, stale) ==
    LET halts == halted_after_update(riskConfig, halted, env.account)
        exits == IF dry_run \/ Room <= 0 THEN <<>>
                 ELSE TimeExits(env.positions, active_trades, expired)
        monitored == ClosedAll(broker_orders, exits)
        enters == ~halts /\ pending_signals # <<>>
    IN  /\ exec_pc = "top"
        /\ account' = env.account
        /\ positions' = env.positions
        /\ now' = env.now
        /\ daily_pnl_cache' = env.account.daily_pnl_pct
        /\ halted' = halts
        /\ halt_reason' = IF daily_pnl_breached(riskConfig, env.account)
                          THEN "update_daily_pnl" ELSE halt_reason
        /\ riskLast' = [op |-> "update_daily_pnl", halted_before |-> halted]
        /\ IF enters
           THEN /\ exec_pc' = "signals"
                /\ sig_index' = 1
                /\ broker_orders' = monitored
           ELSE /\ exec_pc' = "top"
                /\ sig_index' = 0
                /\ broker_orders' = CancelEntries(monitored, stale)
        /\ execLast' = [op |-> "cycle_start", monitored |-> TRUE, enters |-> enters]
        /\ UNCHANGED <<riskConfig, dry_run, use_limit_orders, pending_signals,
                       active_trades, order_tracker>>
        /\ UNCHANGED <<tsVars, smVars, mVars>>

\* lines 210-241: run_once up to the signal loop, and to its end when no
\* signal is pending
run_once(env) ==
    LET halts == halted_after_update(riskConfig, halted, env.account)
        enters == pending_signals # <<>>
    IN  /\ exec_pc = "top"
        /\ account' = env.account
        /\ positions' = env.positions
        /\ now' = env.now
        /\ daily_pnl_cache' = env.account.daily_pnl_pct
        /\ halted' = halts
        /\ halt_reason' = IF daily_pnl_breached(riskConfig, env.account)
                          THEN "update_daily_pnl" ELSE halt_reason
        /\ riskLast' = [op |-> "update_daily_pnl", halted_before |-> halted]
        /\ IF enters
           THEN exec_pc' = "once_signals" /\ sig_index' = 1
           ELSE exec_pc' = "top" /\ sig_index' = 0
        /\ execLast' = [op |-> "run_once", monitored |-> FALSE, enters |-> enters]
        /\ UNCHANGED <<riskConfig, dry_run, use_limit_orders, pending_signals,
                       active_trades, order_tracker, broker_orders>>
        /\ UNCHANGED <<tsVars, smVars, mVars>>

\* lines 277-312: one turn of the loop over the pending signals
process_signal(env, accepted) ==
    /\ exec_pc \in {"signals", "once_signals"}
    /\ sig_index <= Len(pending_signals)
    /\ LET r == check_signal_result(riskConfig, halted, halt_reason,
                                    pending_signals[sig_index], account, positions, now)
           request == execute_signal(r.signal, use_limit_orders)
           sends == should_execute(r, dry_run) /\ request.kind # "none"
       IN  /\ halted' = r.halted
           /\ halt_reason' = r.halt_reason
           /\ riskLast' = [op |-> "check_signal", signal_in |-> pending_signals[sig_index],
                           halted_before |-> halted, result |-> r]
           /\ pending_signals' = [pending_signals EXCEPT ![sig_index] = r.signal]
           /\ IF sends
              THEN /\ broker_orders' = Submitted(broker_orders, request, accepted)
                   /\ IF accepted
                      THEN /\ active_trades' = Put(active_trades, r.signal.ticker, r.signal)
                           /\ order_tracker' = Put(order_tracker, Len(broker_orders) + 1,
                                                   r.signal.ticker)
                      ELSE UNCHANGED <<active_trades, order_tracker>>
              ELSE UNCHANGED <<broker_orders, active_trades, order_tracker>>
           /\ IF r.approved /\ ~dry_run
              THEN /\ account' = env.account
                   /\ positions' = env.positions
                   /\ now' = env.now
              ELSE UNCHANGED <<account, positions, now>>
           /\ execLast' = [op |-> "process_signal", result |-> r, sends |-> sends]
    /\ sig_index' = sig_index + 1
    /\ UNCHANGED <<exec_pc, dry_run, use_limit_orders, riskConfig, daily_pnl_cache>>
    /\ UNCHANGED <<tsVars, smVars, mVars>>

\* lines 314-317 and 196-200: the processed signals leave the queue, stale
\* orders are cancelled, the loop sleeps
finish_signals(stale) ==
    /\ exec_pc = "signals"
    /\ sig_index > Len(pending_signals)
    /\ pending_signals' = <<>>
    /\ broker_orders' = CancelEntries(broker_orders, stale)
    /\ exec_pc' = "top"
    /\ sig_index' = 0
    /\ execLast' = [op |-> "finish_signals"]
    /\ UNCHANGED <<dry_run, use_limit_orders, active_trades, order_tracker>>
    /\ UNCHANGED <<tsVars, riskVars, smVars, mVars>>

\* lines 314-317: the processed signals leave the queue; run_once returns
finish_once ==
    /\ exec_pc = "once_signals"
    /\ sig_index > Len(pending_signals)
    /\ pending_signals' = <<>>
    /\ exec_pc' = "top"
    /\ sig_index' = 0
    /\ execLast' = [op |-> "finish_once"]
    /\ UNCHANGED <<dry_run, use_limit_orders, active_trades, order_tracker,
                   broker_orders>>
    /\ UNCHANGED <<tsVars, riskVars, smVars, mVars>>

\* an error handler that lets the exception end the loop
cycle_error_fatal ==
    /\ exec_pc \in {"top", "signals"}
    /\ Room >= 0
    /\ exec_pc' = "aborted"
    /\ sig_index' = 0
    /\ execLast' = [op |-> "cycle_error"]
    /\ UNCHANGED <<dry_run, use_limit_orders, pending_signals, active_trades,
                   order_tracker, broker_orders>>
    /\ UNCHANGED <<tsVars, riskVars, smVars, mVars>>

\* lines 206-208: a call of the loop body raises, at the start of a cycle
\* or inside the signal loop; the cycle is abandoned with the queue as it
\* is, the error is printed and the handler starts its back-off sleep
cycle_error ==
    /\ exec_pc \in {"top", "signals"}
    /\ Room >= 0
    /\ exec_pc' = "backoff"
    /\ sig_index' = 0
    /\ execLast' = [op |-> "cycle_error"]
    /\ UNCHANGED <<dry_run, use_limit_orders, pending_signals, active_trades,
                   order_tracker, broker_orders>>
    /\ UNCHANGED <<tsVars, riskVars, smVars, mVars>>

\* line 208: time.sleep(10) returns and the while loop starts over
backoff_done ==
    /\ exec_pc = "backoff"
    /\ exec_pc' = "top"
    /\ execLast' = [op |-> "backoff_done"]
    /\ UNCHANGED <<dry_run, use_limit_orders, pending_signals, sig_index,
                   active_trades, order_tracker, broker_orders>>
    /\ UNCHANGED <<tsVars, riskVars, smVars, mVars>>

\* line 208: KeyboardInterrupt during the back-off sleep. The sleep is in
\* the except clause, outside the try block, so no handler of run catches
\* it: run is left without _shutdown.
interrupt_in_backoff ==
    /\ exec_pc = "backoff"
    /\ exec_pc' = "aborted"
    /\ execLast' = [op |-> "interrupted"]
    /\ UNCHANGED <<dry_run, use_limit_orders, pending_signals, sig_index,
                   active_trades, order_tracker, broker_orders>>
    /\ UNCHANGED <<tsVars, riskVars, smVars, mVars>>

\* lines 202-205 and 372-392: KeyboardInterrupt inside the try block (in
\* the cycle or in one of its sleeps), _shutdown
keyboard_interrupt ==
    /\ exec_pc \in {"top", "signals"}
    /\ broker_orders' = CancelEntries(broker_orders, TRUE)
    /\ exec_pc' = "stopped"
    /\ execLast' = [op |-> "shutdown"]
    /\ UNCHANGED <<dry_run, use_limit_orders, pending_signals, sig_index,
                   active_trades, order_tracker>>
    /\ UNCHANGED <<tsVars, riskVars, smVars, mVars>>

NextExec ==
    \/ \E sig \in ExecSignals : add_manual_signal(sig)
    \/ market_closed
    \/ \E env \in ExecEnvironments, expired \in BOOLEAN, stale \in BOOLEAN :
          cycle_start(env, expired, stale)
    \/ \E env \in ExecEnvironments, accepted \in BOOLEAN : process_signal(env, accepted)
    \/ \E stale \in BOOLEAN : finish_signals(stale)
    \/ \E env \in ExecEnvironments : run_once(env)
    \/ finish_once
    \/ cycle_error
    \/ backoff_done
    \/ interrupt_in_backoff
    \/ keyboard_interrupt

\* what the broker shows while no order of the loop fills: cash, and a book
\* of other tickers one short of max_open_positions
ExecFullBook ==
    [account |-> Account(10000000, 1000000, -50, FALSE),
     positions |-> [i \in 1..(RiskConfigDefault.max_open_positions - 1) |->
                       BrokerPosition("GLD", 20, 900000)],
     now |-> 600]

\* the loop against that broker
NextExecFullBook ==
    \/ \E sig \in ExecSignals : add_manual_signal(sig)
    \/ \E expired \in BOOLEAN, stale \in BOOLEAN : cycle_start(ExecFullBook, expired, stale)
    \/ \E accepted \in BOOLEAN : process_signal(ExecFullBook, accepted)
    \/ \E stale \in BOOLEAN : finish_signals(stale)

(***************************************************************************)
(* autotrader_v5/mancini_monitor.py: ManciniEngine and the poll loop       *)
(***************************************************************************)
\* lines 61-82, money in cents
MANCINI ==
    [near_level_buffer |-> 200,
     fb_min_flush |-> 100,
     fb_flush_deep_threshold |-> 300,
     fb_max_flush |-> 800,
     acceptance_candles_shallow |-> 2,
     acceptance_candles_deep |-> 12,
     stop_buffer |-> 50,
     danger_zone_buffer |-> 500,
     tier1_exit_pct |-> 75,
     tier1_target_mult |-> 2,
     risk_per_trade |-> 50000,
     primary_start_hour |-> 8,
     chop_start_hour |-> 11,
     chop_end_hour |-> 14,
     entry_cutoff_hour |-> 15,
     force_exit_hour |-> 15,
     force_exit_minute |-> 50]

\* cfg["max_daily_trades_mancini"], the per-day cap the model runs with
max_daily_trades_mancini == 2

\* cfg["max_daily_loss"]: the default, and a value that keeps the circuit
\* breaker of main closed from the first cycle on (daily_pnl stays 0.0)
MaxDailyLosses == {150000, 0}

\* The session lows the engine is given, in cents: one a few dollars
\* below $512, one just above $512, where a double changes its exponent,
\* and one well inside $512..$1024.
MLows == {50604, 51207, 59200}

\* The prices a poll sees, as distances from the session low in cents:
\* just above the level, far above it, and flushes of the minimum (a
\* shallow one), exactly the maximum (a deep one) and one cent more. 0
\* stands for "no price in this cycle" (spy_price = 0.0).
MOffsets == {100, 600, -100, -800, -801}

\* a price $250 above the level: the stop distance is then more than half
\* the risk per trade and the entry is one share
MRipOffsets == {25000}
NoPrice == 0

\* The times of day a poll can land on, in order: midnight, primary
\* window, chop, force-exit time, after the close.
MTimes == <<[h |-> 0, m |-> 0], [h |-> 9, m |-> 0], [h |-> 12, m |-> 0],
            [h |-> 15, m |-> 50], [h |-> 16, m |-> 10]>>

\* What the broker does in a cycle: nothing of note, the buy is refused,
\* the resting sell order is refused, the watched order is gone from the open orders, or it is gone
\* and the runner order is refused. The combinations left out change
\* nothing: the fill is read only while a position is held, the others
\* only at entry.
MEvents ==
    {[filled |-> FALSE, buy_ok |-> TRUE, sell_ok |-> TRUE],
     [filled |-> FALSE, buy_ok |-> FALSE, sell_ok |-> TRUE],
     [filled |-> FALSE, buy_ok |-> TRUE, sell_ok |-> FALSE],
     [filled |-> TRUE, buy_ok |-> TRUE, sell_ok |-> TRUE],
     [filled |-> TRUE, buy_ok |-> TRUE, sell_ok |-> FALSE]}

\* How a price of k cents, 25600 <= k < 102400, sits in a double: the
\* distance from k/100 to the nearest double, in hundredths of 2^-44. A
\* double in [256, 512) is a multiple of 2^-44 and one in [512, 1024) a
\* multiple of 2^-43; 2^44 = 16 and 2^43 = 8 modulo 100.
FloatErr(k) ==
    LET fine == k < 51200
        residue == ((k % 100) * (IF fine THEN 16 ELSE 8)) % 100
        err == IF residue < 50 THEN -residue ELSE 100 - residue
    IN  IF fine THEN err ELSE 2 * err

\* float(a/100) - float(b/100) > c/100 and >= c/100 for whole-dollar c: the
\* subtraction of two such doubles is exact, so the result is off the
\* decimal difference by the difference of the two representation errors
FloatSubGT(a, b, c) == a - b > c \/ (a - b = c /\ FloatErr(a) - FloatErr(b) > 0)
FloatSubGE(a, b, c) == a - b > c \/ (a - b = c /\ FloatErr(a) - FloatErr(b) >= 0)

\* lines 360-378: ManciniState(), with the session low main puts in it.
\* flush_size, flush_type and target1 are written for the log and never
\* read back; the record leaves them out.
ManciniState(low) ==
    [state |-> "IDLE", prior_day_low |-> low, flush_low |-> 0,
     acceptance_candles_elapsed |-> 0,
     acceptance_candles_needed |-> 0, entry_price |-> 0, stop_price |-> 0,
     shares_entered |-> 0, tier1_order_id |-> "None",
     runner_order_id |-> "None", trades_today |-> 0]

\* a trading gate that looks at the clock only and forgets the trade count
is_trading_allowed_clock_only(at, s, cap) ==
    /\ ~at.weekend
    /\ at.h >= MANCINI.primary_start_hour
    /\ at.h < MANCINI.entry_cutoff_hour
    /\ ~(MANCINI.chop_start_hour <= at.h /\ at.h < MANCINI.chop_end_hour)

\* lines 400-413
is_trading_allowed(at, s, cap) ==
    /\ ~at.weekend
    /\ at.h >= MANCINI.primary_start_hour
    /\ at.h < MANCINI.entry_cutoff_hour
    /\ ~(MANCINI.chop_start_hour <= at.h /\ at.h < MANCINI.chop_end_hour)
    /\ s.trades_today < cap

\* lines 415-418
is_force_exit_time(at) ==
    at.h = MANCINI.force_exit_hour /\ at.m >= MANCINI.force_exit_minute

\* what one run_cycle call leaves: the engine state and the broker calls made
Outcome(s, calls) == [engine |-> s, calls |-> calls]

\* The double nearest to k/100, 25600 <= k < 51200, as a multiple of 2^-44,
\* modulo 4 (2^44 = 16 modulo 400).
FloatUnits4(k) == ((16 * k + FloatErr(k)) % 400) \div 100

\* lines 551-553: rr = (target1 - price) / stop_dist is not below
\* min_reward_risk = 2.0, with target1 = price + stop_dist * 2 and
\* stop_dist = price - (flush_low - 0.50), all in doubles, for prices from
\* 256.00 up and a target below 1024.00. The stop, the distance and its
\* double are exact; the sum price + 2 * stop_dist is rounded only when the
\* price is below 512 and the target is not: it is then a multiple of 2^-44
\* that has to fit a grid of 2^-43, and when it is odd and its lower
\* neighbour is the even one it is rounded down, which leaves
\* target1 - price one unit short of 2 * stop_dist and rr just under 2.0.
reward_risk_ok(flush_low, price) ==
    LET target == price + 2 * (price - flush_low + MANCINI.stop_buffer)
    IN  \/ price >= 51200
        \/ target < 51200
        \/ (3 * FloatUnits4(price) - 2 * FloatUnits4(flush_low) + 8) % 4 # 1

\* lines 543-580: _execute_entry(price)
execute_entry(s, price, buy_ok, sell_ok) ==
    LET stop == s.flush_low - MANCINI.stop_buffer
        stop_dist == price - stop
        target1 == price + stop_dist * MANCINI.tier1_target_mult
        shares == Max(1, TruncDiv(MANCINI.risk_per_trade, stop_dist))
        tier1_shares == Max(1, TruncDiv(shares * MANCINI.tier1_exit_pct, 100))
        buy == [call |-> "market_buy", shares |-> shares, price |-> 0]
    IN  IF stop_dist <= 0 THEN Outcome([s EXCEPT !.state = "IDLE"], <<>>)
        ELSE IF ~reward_risk_ok(s.flush_low, price) THEN Outcome([s EXCEPT !.state = "IDLE"], <<>>)
        ELSE IF ~buy_ok THEN Outcome([s EXCEPT !.state = "IDLE"], <<buy>>)
        ELSE Outcome([s EXCEPT !.entry_price = price, !.stop_price = stop,
                               !.shares_entered = shares,
                               !.tier1_order_id = IF sell_ok THEN "T1" ELSE "None",
                               !.state = "ENTERED"],
                     <<buy, [call |-> "limit_sell", shares |-> tier1_shares,
                             price |-> target1]>>)

\* lines 433-450: IDLE or EXITED
cycle_idle(s, price) ==
    LET r == IF s.state = "EXITED"
             THEN [s EXCEPT !.state = "IDLE", !.flush_low = 0, !.entry_price = 0,
                            !.tier1_order_id = "None", !.runner_order_id = "None"]
             ELSE s
    IN  IF r.prior_day_low > 0
           /\ ~FloatSubGT(price, r.prior_day_low, MANCINI.near_level_buffer)
        THEN Outcome([r EXCEPT !.state = "NEAR_LEVEL"], <<>>)
        ELSE Outcome(r, <<>>)

\* a flush test that also turns away a flush of exactly the maximum
flush_too_large_inclusive(low, price) ==
    low - price >= MANCINI.fb_max_flush

\* lines 454 and 503: flush > fb_max_flush, flush = prior_day_low - spy_price
flush_too_large(low, price) ==
    FloatSubGT(low, price, MANCINI.fb_max_flush)

\* lines 451-474: NEAR_LEVEL
cycle_near_level(s, price) ==
    IF FloatSubGE(s.prior_day_low, price, MANCINI.fb_min_flush)
    THEN IF flush_too_large(s.prior_day_low, price)
         THEN Outcome([s EXCEPT !.state = "IDLE"], <<>>)
         ELSE LET deep == FloatSubGE(s.prior_day_low, price,
                                     MANCINI.fb_flush_deep_threshold)
              IN  Outcome([s EXCEPT
                      !.flush_low = price,
                      !.acceptance_candles_needed =
                          IF deep THEN MANCINI.acceptance_candles_deep
                          ELSE MANCINI.acceptance_candles_shallow,
                      !.acceptance_candles_elapsed = 0,
                      !.state = "FLUSH_DETECTED"], <<>>)
    ELSE Outcome(s, <<>>)

\* lines 480-505: ACCEPTANCE_WAIT
cycle_acceptance_wait(s, price, buy_ok, sell_ok) ==
    IF price > s.flush_low + MANCINI.danger_zone_buffer
    THEN execute_entry(s, price, buy_ok, sell_ok)
    ELSE IF price > s.prior_day_low
    THEN LET counted == [s EXCEPT !.acceptance_candles_elapsed = @ + 1]
         IN  IF counted.acceptance_candles_elapsed >= counted.acceptance_candles_needed
             THEN execute_entry(counted, price, buy_ok, sell_ok)
             ELSE Outcome(counted, <<>>)
    ELSE IF flush_too_large(s.prior_day_low, price)
    THEN Outcome([s EXCEPT !.state = "IDLE"], <<>>)
    ELSE Outcome(s, <<>>)

\* lines 507-532: ENTERED. filled: the tier-1 order is no longer open.
cycle_entered(s, price, filled, sell_ok) ==
    IF price <= s.stop_price
    THEN Outcome([s EXCEPT !.state = "EXITED", !.trades_today = @ + 1],
                 <<[call |-> "market_sell", shares |-> s.shares_entered, price |-> 0]>>
                 \o (IF s.tier1_order_id # "None"
                     THEN <<[call |-> "cancel_order", shares |-> 0, price |-> 0]>> ELSE <<>>))
    ELSE IF s.tier1_order_id # "None" /\ filled
    THEN LET runner_shares ==
                 Max(1, TruncDiv(s.shares_entered * (100 - MANCINI.tier1_exit_pct), 100))
         IN  Outcome([s EXCEPT !.runner_order_id = IF sell_ok THEN "RUN" ELSE "None",
                               !.tier1_order_id = "None",
                               !.state = "TIER1_HIT"],
                     <<[call |-> "trailing_stop_sell", shares |-> runner_shares, price |-> 0]>>)
    ELSE Outcome(s, <<>>)

\* lines 534-541: TIER1_HIT. filled: the runner order is no longer open.
cycle_tier1_hit(s, filled) ==
    IF s.runner_order_id # "None" /\ filled
    THEN Outcome([s EXCEPT !.state = "EXITED", !.trades_today = @ + 1], <<>>)
    ELSE Outcome(s, <<>>)

\* lines 420-541: run_cycle(spy_price)
run_cycle(s, at, cap, price, filled, buy_ok, sell_ok) ==
    IF is_force_exit_time(at)
    THEN IF s.state \in {"ENTERED", "TIER1_HIT"}
         THEN Outcome([s EXCEPT !.state = "EXITED"],
                      <<[call |-> "close_position", shares |-> 0, price |-> 0]>>)
         ELSE Outcome(s, <<>>)
    ELSE IF ~is_trading_allowed(at, s, cap) THEN Outcome(s, <<>>)
    ELSE IF s.state \in {"IDLE", "EXITED"} THEN cycle_idle(s, price)
    ELSE IF s.state = "NEAR_LEVEL" THEN cycle_near_level(s, price)
    ELSE IF s.state = "FLUSH_DETECTED"
    THEN Outcome([s EXCEPT !.state = "ACCEPTANCE_WAIT"], <<>>)
    ELSE IF s.state = "ACCEPTANCE_WAIT"
    THEN cycle_acceptance_wait(s, price, buy_ok, sell_ok)
    ELSE IF s.state = "ENTERED" THEN cycle_entered(s, price, filled, sell_ok)
    ELSE IF s.state = "TIER1_HIT" THEN cycle_tier1_hit(s, filled)
    ELSE Outcome(s, <<>>)

\* the time of day the clock shows
Now == [h |-> MTimes[m_clock.slot].h, m |-> MTimes[m_clock.slot].m,
        weekend |-> m_clock.weekend]

\* line 912: circuit_breaker = abs(daily_pnl) >= cfg["max_daily_loss"]
circuit_breaker ==
    (IF m_daily_pnl < 0 THEN -m_daily_pnl ELSE m_daily_pnl) >= m_max_daily_loss

Bought(calls) == \E i \in 1..Len(calls) : calls[i].call = "market_buy"

\* lines 851-900: main before its loop; daily_pnl = 0.0 is never assigned again
ManciniInit ==
    /\ m_clock = [slot |-> 1, weekend |-> FALSE]
    /\ m_daily_pnl = 0
    /\ m_entries_today = 0
    /\ mLast = NoCall

\* the session low and loss limit the other specifications leave in place
ManciniConfigDefault ==
    /\ m_engine = ManciniState(59200)
    /\ m_max_daily_loss = 150000

ManciniConfigAny ==
    /\ m_engine \in {ManciniState(low) : low \in MLows}
    /\ m_max_daily_loss \in MaxDailyLosses

\* lines 908-983: one pass of the poll loop of main. price is what
\* get_latest_prices gave for SPY (NoPrice when it gave nothing). The
\* midnight reset fetches the levels again; the run keeps one session low.
poll_cycle(offset, filled, buy_ok, sell_ok) ==
    LET price == IF offset = NoPrice THEN NoPrice ELSE m_engine.prior_day_low + offset
        runs == ~circuit_breaker /\ price > 0
        out == IF runs
               THEN run_cycle(m_engine, Now, max_daily_trades_mancini, price,
                              filled, buy_ok, sell_ok)
               ELSE Outcome(m_engine, <<>>)
        midnight == Now.h = 0 /\ Now.m = 0
    IN  /\ m_engine' = IF midnight
                       THEN [out.engine EXCEPT !.trades_today = 0]
                       ELSE out.engine
        /\ m_entries_today' = IF Bought(out.calls) /\ buy_ok
                              THEN m_entries_today + 1 ELSE m_entries_today
        /\ mLast' = [op |-> "poll_cycle", price |-> price, calls |-> out.calls]
        /\ UNCHANGED <<m_clock, m_daily_pnl, m_max_daily_loss>>
        /\ UNCHANGED <<tsVars, riskVars, smVars, execVars>>

\* line 992, time.sleep(interval): the clock moves on within the day
clock_advance(slot) ==
    /\ slot > m_clock.slot
    /\ m_clock' = [m_clock EXCEPT !.slot = slot]
    /\ mLast' = [op |-> "sleep"]
    /\ UNCHANGED <<m_engine, m_daily_pnl, m_max_daily_loss, m_entries_today>>
    /\ UNCHANGED <<tsVars, riskVars, smVars, execVars>>

\* the clock passes midnight: a new day, a weekday or not
next_day(weekend) ==
    /\ m_clock' = [slot |-> 1, weekend |-> weekend]
    /\ m_entries_today' = 0
    /\ mLast' = [op |-> "sleep"]
    /\ UNCHANGED <<m_engine, m_daily_pnl, m_max_daily_loss>>
    /\ UNCHANGED <<tsVars, riskVars, smVars, execVars>>

NextMancini ==
    \/ \E offset \in MOffsets \cup {NoPrice}, e \in MEvents :
          poll_cycle(offset, e.filled, e.buy_ok, e.sell_ok)
    \/ \E slot \in 1..Len(MTimes) : clock_advance(slot)
    \/ \E weekend \in BOOLEAN : next_day(weekend)

\* the poll loop on a day on which the price can also rip far above the level
NextManciniRip ==
    \/ \E offset \in MOffsets \cup MRipOffsets \cup {NoPrice}, e \in MEvents :
          poll_cycle(offset, e.filled, e.buy_ok, e.sell_ok)
    \/ \E slot \in 1..Len(MTimes) : clock_advance(slot)
    \/ \E weekend \in BOOLEAN : next_day(weekend)

(***************************************************************************)
(* core/strategy_manager.py StrategyManager.calculate_position_size        *)
(***************************************************************************)
\* What the sizing is asked with: a bucket capital of $8,000, $10,000 or
\* $12,000, an entry price of 0 or between $256 and $1,024, a stop on either
\* side of the entry and at least half of it. On every one of these inputs
\* the operator below returns what the source returns.
SizingCapitals == {800000, 1000000, 1200000}
SizingEntries == {0, 30000, 52000, 52020}
SizingStops == {27500, 30000, 48000, 48020, 49520, 55000}

\* line 431, abs(entry_price - stop_price), against the decimal distance:
\* the two prices are doubles, their subtraction is exact, and the result is
\* off by the difference of their representation errors (in hundredths of
\* 2^-44)
risk_per_share_drift(entry_price, stop_price) ==
    IF entry_price > stop_price
    THEN FloatErr(entry_price) - FloatErr(stop_price)
    ELSE FloatErr(stop_price) - FloatErr(entry_price)

\* lines 419-440. max_usd / entry_price is by_capital and max_loss_usd /
\* risk_per_share is by_risk, in shares; min() on the dollar amounts picks
\* the smaller of them. When max_loss_usd is a whole multiple of the decimal
\* distance and the float distance is the larger one, the float quotient
\* lies under the whole number and int() drops a share.
calculate_position_size(profile, entry_price, stop_price) ==
    LET risk_per_share == Abs(entry_price - stop_price)
        by_capital == (profile.current_capital * profile.max_position_pct)
                          \div (100 * entry_price)
        max_loss == profile.current_capital * profile.max_risk_per_trade_pct
        by_risk == IF /\ max_loss % (1000 * risk_per_share) = 0
                      /\ risk_per_share_drift(entry_price, stop_price) > 0
                   THEN max_loss \div (1000 * risk_per_share) - 1
                   ELSE max_loss \div (1000 * risk_per_share)
    IN  IF entry_price <= 0 THEN 0
        ELSE IF risk_per_share > 0 THEN Max(Min(by_capital, by_risk), 0)
        ELSE Max(by_capital, 0)

\* a call of calculate_position_size on a bucket
size_position(sid, entry_price, stop_price) ==
    /\ smLast' = [op |-> "calculate_position_size", strategy_id |-> sid,
                  entry_price |-> entry_price, stop_price |-> stop_price,
                  shares |-> calculate_position_size(strategies[sid],
                                                     entry_price, stop_price)]
    /\ UNCHANGED <<strategies, sm_positions, closed_trades, state_file, sm_peer>>
    /\ UNCHANGED <<tsVars, riskVars, execVars, mVars>>

NextSizing ==
    \E sid \in StrategyIDs, e \in SizingEntries, st \in SizingStops :
        size_position(sid, e, st)

\* the allocator as constructed, with the capital its buckets have come to
SizingInit ==
    /\ strategies \in {[sid \in StrategyIDs |->
                           [DefaultStrategies[sid] EXCEPT !.current_capital = c]] :
                       c \in SizingCapitals}
    /\ sm_positions = <<>>
    /\ closed_trades = <<>>
    /\ state_file = [strategies |-> <<>>, positions |-> <<>>, closed_trades |-> <<>>]
    /\ smLast = NoCall
    /\ sm_peer = NoPeer

(***************************************************************************)
(* One specification per component; the others stay as constructed.       *)
(***************************************************************************)
InitTS == TSInit /\ RiskInit /\ SMInit /\ ExecInit /\ ExecConfigDefault /\ ManciniInit /\ ManciniConfigDefault

SpecTS == InitTS /\ [][NextTS]_vars

InitRisk == TSInit /\ RiskInit /\ SMInit /\ ExecInit /\ ExecConfigDefault /\ ManciniInit /\ ManciniConfigDefault

SpecRisk == InitRisk /\ [][NextRisk]_vars

InitSM == TSInit /\ RiskInit /\ SMInit /\ ExecInit /\ ExecConfigDefault /\ riskConfig = RiskConfigDefault /\ ManciniInit /\ ManciniConfigDefault

SpecSM == InitSM /\ [][NextSM]_vars

SpecSMFill == InitSM /\ [][NextSMFill]_vars

SpecSMAnyQty == InitSM /\ [][NextSMAnyQty]_vars

SpecTSPage == InitTS /\ [][NextTSPage]_vars

SpecSMPeers == InitSM /\ [][NextSMPeers]_vars

InitExec == TSInit /\ RiskInit /\ SMInit /\ ExecInit /\ ExecConfigAny /\ riskConfig = RiskConfigDefault /\ ManciniInit /\ ManciniConfigDefault

SpecExec == InitExec /\ [][NextExec]_vars

SpecExecFullBook == InitExec /\ [][NextExecFullBook]_vars

InitMancini ==
    /\ TSInit /\ RiskInit /\ SMInit /\ ExecInit /\ ExecConfigDefault
    /\ riskConfig = RiskConfigDefault
    /\ ManciniInit /\ ManciniConfigAny

SpecMancini == InitMancini /\ [][NextMancini]_vars

SpecManciniRip == InitMancini /\ [][NextManciniRip]_vars

InitSizing ==
    /\ TSInit /\ RiskInit /\ SizingInit /\ ExecInit /\ ExecConfigDefault
    /\ riskConfig = RiskConfigDefault
    /\ ManciniInit /\ ManciniConfigDefault

SpecSizing == InitSizing /\ [][NextSizing]_vars

(***************************************************************************)
(* Claims about the trailing-stop ratchet                                  *)
(***************************************************************************)

\* C1: for every tracked ticker and every update_stop call, whatever the
\* price, the stop stored after the call is greater than or equal to the
\* stop stored before it (and no other ticker's stop changes).
C1_StopNeverDecreases ==
    [][ tsLast'.op = "update_stop" =>
          \A t \in TSTickers :
              stops[t] # NoRecord =>
                  /\ stops'[t] # NoRecord
                  /\ stops'[t].stop >= stops[t].stop ]_vars

\* C1 witness: an update_stop call with a price below the stored stop of a
\* record whose stop was raised earlier; the stop has stayed where it was.
C1_Witness ==
    /\ tsLast.op = "update_stop"
    /\ tsLast.before.phase \in {"T2_HIT", "RUNAWAY"}
    /\ tsLast.price < tsLast.before.stop
    /\ tsLast.after.stop = tsLast.before.stop
    /\ stops[tsLast.ticker] = tsLast.after

\* C2: over any sequence of update_stop calls the phase of a record never
\* moves backward in the order INITIAL, T1_HIT, T2_HIT, RUNAWAY, and a
\* record in RUNAWAY stays in RUNAWAY.
C2_PhaseNeverMovesBack ==
    [][ tsLast'.op = "update_stop" =>
          \A t \in TSTickers :
              stops[t] # NoRecord =>
                  /\ stops'[t] # NoRecord
                  /\ PhaseRank(stops'[t].phase) >= PhaseRank(stops[t].phase)
                  /\ (stops[t].phase = "RUNAWAY" => stops'[t].phase = "RUNAWAY") ]_vars

\* C2 witness: an update_stop call on a record in T2_HIT with a price that
\* has fallen back below the T1 target; the record is still in T2_HIT.
C2_Witness ==
    /\ tsLast.op = "update_stop"
    /\ tsLast.before.phase = "T2_HIT"
    /\ tsLast.price < tsLast.before.t1_target
    /\ tsLast.after.phase = "T2_HIT"

\* C16: a second update_stop in a row for the same ticker at the same price
\* leaves the record exactly as the first call left it and logs neither a
\* stop nor a phase change; and for every tracked record and every price,
\* applying the update twice gives the record that applying it once gives.
C16_UpdateStopIdempotent ==
    /\ (tsLast.op = "update_stop" /\ tsLast.repeat) =>
          /\ tsLast.after = tsLast.before
          /\ ~tsLast.logged_stop
          /\ ~tsLast.logged_phase
    /\ \A t \in TSTickers, p \in TSPrices :
          stops[t] # NoRecord =>
             update_stop_record(update_stop_record(stops[t], p), p)
                = update_stop_record(stops[t], p)

\* the second of two calls at one price, the first of which had taken the
\* record from INITIAL past both targets and raised its stop
C16_Witness ==
    /\ tsLast.op = "update_stop"
    /\ tsLast.repeat
    /\ tsLast.after.phase \in {"T2_HIT", "RUNAWAY"}
    /\ tsLast.after.highest_price = tsLast.price
    /\ tsLast.after.stop > tsLast.after.entry

\* C22: init_position stores phase INITIAL and the stop entry * (1 -
\* initial_stop_pct / 100) in cents (95.00 for entry 100.00 at 5%); and
\* update_stop on an INITIAL record with a price at or above the T1 target
\* and below the T2 target stores phase T1_HIT and the stop entry * (1 +
\* t1_trail) rounded to cents (100.20 for entry 100.00, also when the price
\* 103.00 is the T1 target itself).
C22_InitThenT1 ==
    /\ tsLast.op = "init_position" =>
          LET pos == stops[tsLast.ticker]
          IN  /\ pos.phase = "INITIAL"
              /\ pos.stop = RoundDiv(pos.entry * (1000 - pos.config.initial_stop_pct), 1000)
              /\ (pos.entry = 10000 /\ pos.config.initial_stop_pct = 50) => pos.stop = 9500
    /\ (/\ tsLast.op = "update_stop"
        /\ tsLast.before.phase = "INITIAL"
        /\ tsLast.price >= tsLast.before.t1_target
        /\ tsLast.price < tsLast.before.t2_target) =>
          /\ tsLast.after.phase = "T1_HIT"
          /\ tsLast.after.stop = RoundDiv(tsLast.before.entry * 1002, 1000)
          /\ tsLast.before.entry = 10000 => tsLast.after.stop = 10020
          /\ stops[tsLast.ticker] = tsLast.after

\* a position entered at 100.00 with a 5% stop (95.00) and T1 target 103.00
\* has just been updated with the price 103.00
C22_Witness ==
    /\ tsLast.op = "update_stop"
    /\ tsLast.before.phase = "INITIAL"
    /\ tsLast.before.entry = 10000
    /\ tsLast.before.stop = 9500
    /\ tsLast.before.t1_target = 10300
    /\ tsLast.price = 10300
    /\ tsLast.after.phase = "T1_HIT"
    /\ tsLast.after.stop = 10020

\* the trail fraction of the phase a record is in
TrailOf(pos) ==
    IF pos.phase = "RUNAWAY" THEN pos.config.runaway_trail ELSE pos.config.t2_trail

\* C34: after every update_stop call that leaves the record in T2_HIT or
\* RUNAWAY the stop is at least entry + (highest - entry) * the phase's
\* trail fraction, rounded to cents, where highest is the running maximum of
\* the entry price and every price passed so far.
C34_StopAtLeastTrail ==
    tsLast.op = "update_stop" =>
        LET a == tsLast.after
            b == tsLast.before
        IN  /\ a.highest_price = Max(b.highest_price, tsLast.price)
            /\ a.highest_price >= a.entry
            /\ a.phase \in {"T2_HIT", "RUNAWAY"} =>
                  a.stop >= TrailStop(a, a.highest_price, TrailOf(a))

\* C34 witness: a record already in T2_HIT was updated with a new high below
\* the runaway target, and its stop moved up to the trail of the new high.
C34_Witness ==
    /\ tsLast.op = "update_stop"
    /\ tsLast.before.phase = "T2_HIT"
    /\ tsLast.after.phase = "T2_HIT"
    /\ tsLast.price > tsLast.before.highest_price
    /\ tsLast.after.stop > tsLast.before.stop
    /\ tsLast.after.stop
          = TrailStop(tsLast.after, tsLast.price, tsLast.after.config.t2_trail)

\* the trigger price of the phase of a rank above INITIAL
TriggerOf(pos, rank) ==
    IF rank = 2 THEN pos.t1_target
    ELSE IF rank = 3 THEN pos.t2_target ELSE pos.runaway_target

\* the rank of the highest phase whose trigger the price has reached
ReachedRank(pos, price) ==
    LET reached == {1} \cup {r \in 2..4 : TriggerOf(pos, r) <= price}
    IN  CHOOSE r \in reached : \A q \in reached : q <= r

\* the stop a transition into the phase of the record sets
TransitionStop(pos) ==
    IF pos.phase = "T1_HIT"
    THEN RoundDiv(pos.entry * (1000 + pos.config.t1_trail), 1000)
    ELSE TrailStop(pos, pos.highest_price, TrailOf(pos))

\* C35: one update_stop call advances the phase as far as the price allows:
\* the phase after the call is the later of the old phase and the highest
\* phase whose trigger price is at or below the price (INITIAL to RUNAWAY in
\* one call included), and when the phase changed the stop is the one of
\* the final phase.
C35_PhaseAdvancesAllTheWay ==
    tsLast.op = "update_stop" =>
        LET a == tsLast.after
            b == tsLast.before
        IN  /\ PhaseRank(a.phase)
                  = Max(PhaseRank(b.phase), ReachedRank(b, tsLast.price))
            /\ a.phase # b.phase => a.stop = TransitionStop(a)

\* C35 witness: one call took a record from INITIAL to RUNAWAY and set the
\* runaway trail of the price as its stop.
C35_Witness ==
    /\ tsLast.op = "update_stop"
    /\ tsLast.before.phase = "INITIAL"
    /\ tsLast.price >= tsLast.before.runaway_target
    /\ tsLast.after.phase = "RUNAWAY"
    /\ tsLast.after.stop
          = TrailStop(tsLast.after, tsLast.price, tsLast.after.config.runaway_trail)

(***************************************************************************)
(* Claims about the risk gate                                              *)
(***************************************************************************)

\* the last call was check_signal
Checked == riskLast.op = "check_signal"

\* C3: while the halt flag is set, check_signal returns approved = false
\* with adjusted quantity 0, whatever the candidate, the account snapshot
\* and the open positions are.
C3_HaltedRejectsAll ==
    (Checked /\ riskLast.halted_before) =>
        /\ ~riskLast.result.approved
        /\ riskLast.result.adjusted_qty = 0

\* C3 witness: a check made while halted, of a candidate that the same
\* account, positions and time of day would have approved without the halt.
C3_Witness ==
    /\ Checked
    /\ riskLast.halted_before
    /\ ~riskLast.result.approved
    /\ check_signal_result(riskConfig, FALSE, "", riskLast.signal_in,
                           account, positions, now).approved

\* C4: once update_daily_pnl or check_signal has observed a daily P&L at
\* or below the halt threshold the halt flag is set, and it stays set
\* through every later call except reset_halt, also when the P&L is back
\* above the threshold; no candidate is approved while it is set.
C4_HaltPersistsUntilReset ==
    [][ /\ (riskLast'.op \in {"update_daily_pnl", "check_signal"}
              /\ daily_pnl_breached(riskConfig, account)) => halted'
        /\ (halted /\ riskLast'.op # "reset_halt") => halted'
        /\ (halted /\ riskLast'.op = "check_signal") => ~riskLast'.result.approved
      ]_vars

\* C4 witness: update_daily_pnl was called while halted with a P&L that is
\* back above the threshold, and the halt flag is still set.
C4_Witness ==
    /\ riskLast.op = "update_daily_pnl"
    /\ riskLast.halted_before
    /\ ~daily_pnl_breached(riskConfig, account)
    /\ daily_pnl_cache = account.daily_pnl_pct
    /\ halted

\* the cost check 9 reads: the quantity the size validation left, at the entry price
RequestedCash ==
    validate_position_size(riskConfig, riskLast.signal_in, account).signal.qty
        * riskLast.signal_in.entry_price

\* floor(0.95 * buying_power / entry_price)
Floor95 == (account.buying_power * 19) \div (20 * riskLast.signal_in.entry_price)

InSeq(x, seq) == \E i \in 1..Len(seq) : seq[i] = x

C7_EveryApprovedHasStop ==
    (Checked /\ riskLast.result.approved) =>
        riskLast.result.signal.stop_loss_price > 0

\* C7 as amended: with mandatory_stop_loss set, every approved BUY or
\* SCALE_IN result carries a stop-loss price greater than 0; an entry that
\* arrived without one carries the stop computed at default_stop_pct below
\* the entry price, and the adjustment is noted.
C7_ApprovedEntryHasStop ==
    (/\ Checked
     /\ riskLast.result.approved
     /\ riskConfig.mandatory_stop_loss
     /\ riskLast.result.signal.action \in {"BUY", "SCALE_IN"}) =>
        /\ riskLast.result.signal.stop_loss_price > 0
        /\ riskLast.signal_in.stop_loss_price <= 0 =>
              /\ riskLast.result.signal.stop_loss_price =
                    RoundDiv(riskLast.signal_in.entry_price
                                * (1000 - riskConfig.default_stop_pct), 1000)
              /\ InSeq("auto_stop", riskLast.result.adjustments)

\* C7 witness: an entry that arrived without a stop, approved with the
\* default stop 5% below its entry price.
C7_Witness ==
    /\ Checked
    /\ riskLast.result.approved
    /\ riskConfig.mandatory_stop_loss
    /\ riskLast.signal_in.action = "BUY"
    /\ riskLast.signal_in.stop_loss_price = 0
    /\ riskLast.signal_in.entry_price = 5000
    /\ riskLast.result.signal.stop_loss_price = 4750

\* C8: every approved entry has a final position value of at most
\* min(equity * max_position_pct / 100, max_position_usd).
C8_ApprovedWithinBothCaps ==
    (/\ Checked
     /\ riskLast.result.approved
     /\ riskLast.result.signal.action \in {"BUY", "SCALE_IN"}) =>
        riskLast.result.adjusted_qty * riskLast.result.signal.entry_price
            <= Min((account.equity * riskConfig.max_position_pct) \div 100,
                   riskConfig.max_position_usd)

\* C26: check_signal never increases a candidate's quantity: the quantity
\* on the signal after the call and adjusted_qty in the result are at most
\* the quantity the candidate came with, which original_qty records.
C26_QuantityNeverIncreases ==
    riskLast.op = "check_signal" =>
        /\ riskLast.result.original_qty = riskLast.signal_in.qty
        /\ riskLast.result.signal.qty <= riskLast.signal_in.qty
        /\ riskLast.result.adjusted_qty <= riskLast.signal_in.qty

\* C26 witness: 1000 shares asked for, cut by the size cap and then by the
\* buying power, approved with fewer shares than the cap alone leaves.
C26_Witness ==
    /\ riskLast.op = "check_signal"
    /\ riskLast.result.approved
    /\ riskLast.signal_in.qty = 1000
    /\ riskLast.result.adjustments =
           <<"size_reduced_pct_of_equity", "reduced_to_buying_power">>
    /\ riskLast.result.adjusted_qty > 0
    /\ riskLast.result.adjusted_qty <
           validate_position_size(riskConfig, riskLast.signal_in, account).signal.qty

\* C27: every approved result has a final position value, adjusted quantity
\* times entry price, of at least min_position_usd.
C27_ApprovedMeetsMinimumValue ==
    (riskLast.op = "check_signal" /\ riskLast.result.approved) =>
        riskLast.result.adjusted_qty * riskLast.result.signal.entry_price
            >= riskConfig.min_position_usd

\* C37: every approved entry (BUY or SCALE_IN) of a candidate that came with
\* at least one share has an adjusted quantity of at least 1 share: a size
\* cap or buying-power cut that leaves 0 shares ends in a rejection.
C37_ApprovedEntryHasShares ==
    (/\ riskLast.op = "check_signal"
     /\ riskLast.result.approved
     /\ riskLast.signal_in.action \in {"BUY", "SCALE_IN"}
     /\ riskLast.signal_in.qty >= 1) =>
        riskLast.result.adjusted_qty >= 1

(***************************************************************************)
(* Claims about the capital allocator                                      *)
(***************************************************************************)
\* C9 (as stated): in every reachable state, for every bucket, the summed
\* cost basis of the positions the bucket still holds (open or partly
\* closed, still in the open-position list) is at most the bucket's current
\* capital. The allocator breaks it: a partly closed position stops counting
\* as deployed, so the bucket can be filled again on top of it.
C9_HeldCostWithinCapital ==
    \A sid \in StrategyIDs :
        SumCost(HeldOf(sm_positions, sid)) <= strategies[sid].current_capital

\* the three conditions of can_open_position, on the state before the call
C10_Allowed(position) ==
    LET sid == position.strategy_id
        cost == position.cost_basis
    IN  /\ get_position_count(sm_positions, sid) < strategies[sid].max_positions
        /\ cost <= get_available_capital(strategies, sm_positions, sid)
        /\ cost * 100 <= strategies[sid].current_capital * strategies[sid].max_position_pct

\* C10: every open_position call reports whether the position passes the
\* three conditions on the state it was called in; a refused call leaves the
\* open-position list, the closed history and every bucket unchanged; an
\* accepted call appends exactly that position, raises the owning bucket's
\* total_trades by one and changes nothing else of any bucket.
C10_OpenPositionRevalidates ==
    [][ smLast'.op = "open_position" =>
          LET position == smLast'.position IN
          /\ smLast'.ok = C10_Allowed(position)
          /\ closed_trades' = closed_trades
          /\ IF smLast'.ok
             THEN /\ sm_positions' = Append(sm_positions, position)
                  /\ strategies' = [strategies EXCEPT
                                       ![position.strategy_id].total_trades = @ + 1]
             ELSE /\ sm_positions' = sm_positions
                  /\ strategies' = strategies ]_vars

\* an open_position call was refused while the list already held two or
\* more positions, one of them partly closed
C10_Witness ==
    /\ smLast.op = "open_position"
    /\ ~smLast.ok
    /\ Len(sm_positions) >= 2
    /\ \E i \in 1..Len(sm_positions) : sm_positions[i].status = "partial"

\* C11: a close_position call with the quantity omitted (0 here) or at least
\* the remaining quantity removes the position from the open list, appends it
\* to the closed history as closed, and adds its accumulated realized P&L
\* (earlier partial closes included) to the bucket's cumulative P&L and, when
\* the bucket reinvests, to its capital; a call with 0 < quantity < remaining
\* keeps the position in place marked partial with the remaining quantity
\* lower by exactly that quantity, and leaves every bucket and the closed
\* history unchanged.
C11_CloseFullOrPartial ==
    [][ smLast'.op = "close_position" =>
          LET i == find_tracked(sm_positions, smLast'.ticker)
              pos == sm_positions[i]
              q == smLast'.qty
              b == pos.strategy_id
              realized == pos.realized_pnl + smLast'.pnl
          IN  IF q = 0 \/ q >= pos.remaining_qty
              THEN /\ sm_positions' = RemoveAt(sm_positions, i)
                   /\ Len(closed_trades') = Len(closed_trades) + 1
                   /\ SubSeq(closed_trades', 1, Len(closed_trades)) = closed_trades
                   /\ closed_trades'[Len(closed_trades')].ticker = pos.ticker
                   /\ closed_trades'[Len(closed_trades')].status = "closed"
                   /\ closed_trades'[Len(closed_trades')].realized_pnl = realized
                   /\ strategies'[b].total_realized_pnl =
                          strategies[b].total_realized_pnl + realized
                   /\ strategies'[b].current_capital =
                          strategies[b].current_capital +
                              (IF strategies[b].reinvest_profits THEN realized ELSE 0)
                   /\ \A sid \in StrategyIDs \ {b} : strategies'[sid] = strategies[sid]
              ELSE /\ Len(sm_positions') = Len(sm_positions)
                   /\ sm_positions'[i].status = "partial"
                   /\ sm_positions'[i].remaining_qty = pos.remaining_qty - q
                   /\ \A j \in 1..Len(sm_positions) :
                         j # i => sm_positions'[j] = sm_positions[j]
                   /\ strategies' = strategies
                   /\ closed_trades' = closed_trades ]_vars

\* a position was fully closed after an earlier partial close, so that what
\* the bucket booked is more than the P&L of the last call
C11_Witness ==
    /\ smLast.op = "close_position"
    /\ smLast.full
    /\ closed_trades # <<>>
    /\ closed_trades[Len(closed_trades)].realized_pnl # smLast.pnl
    /\ strategies[closed_trades[Len(closed_trades)].strategy_id].current_capital
          # DefaultStrategies[closed_trades[Len(closed_trades)].strategy_id].current_capital

RECURSIVE SumRealized(_)
SumRealized(poss) ==
    IF poss = <<>> THEN 0 ELSE Head(poss).realized_pnl + SumRealized(Tail(poss))

\* the bucket's fully closed positions
ClosedOf(sid) == PositionsOf(closed_trades, sid, {"closed"})

\* every position the bucket ever opened is still held or in the closed list
HistoryComplete(sid) ==
    strategies[sid].total_trades
        = Len(PositionsOf(sm_positions, sid, {"open", "partial"})) + Len(ClosedOf(sid))

\* C38: after any sequence of opens and full or partial closes, a bucket
\* that reinvests has current capital = starting capital + its cumulative
\* realized P&L, and that P&L is the sum of the realized P&L of its fully
\* closed positions (as long as the list of them is the whole history); with
\* reinvesting off, a full close of any held position at any price leaves
\* the capital as it is.
C38_CapitalFollowsRealizedPnl ==
    \A sid \in StrategyIDs :
        LET profile == strategies[sid]
            fixed == [profile EXCEPT !.reinvest_profits = FALSE]
        IN  /\ profile.reinvest_profits =>
                  profile.current_capital
                      = profile.starting_capital + profile.total_realized_pnl
            /\ HistoryComplete(sid) =>
                  profile.total_realized_pnl = SumRealized(ClosedOf(sid))
            /\ \A i \in 1..Len(sm_positions), x \in SMExitPrices :
                  LET pos == sm_positions[i]
                      realized == pos.realized_pnl
                                    + (x - pos.entry_price) * pos.remaining_qty
                  IN  profile_after_close(fixed, realized).current_capital
                          = profile.current_capital

\* C38 witness: a reinvesting bucket has two fully closed positions, one of
\* them closed in two steps, and a capital that has moved with their P&L.
C38_Witness ==
    /\ smLast.op = "close_position"
    /\ smLast.full
    /\ \E sid \in StrategyIDs :
          /\ strategies[sid].reinvest_profits
          /\ Len(ClosedOf(sid)) = 2
          /\ HistoryComplete(sid)
          /\ ClosedOf(sid)[2].realized_pnl # smLast.pnl
          /\ strategies[sid].total_realized_pnl < 0
          /\ strategies[sid].current_capital < strategies[sid].starting_capital

\* C39: after any sequence of close_position calls with any quantity
\* argument, 0 and negative values included, every position in the open
\* list has 0 < remaining quantity <= original quantity (so that no call
\* has raised a remaining quantity past what the position was opened with).
C39_RemainingWithinOriginal ==
    \A i \in 1..Len(sm_positions) :
        /\ 0 < sm_positions[i].remaining_qty
        /\ sm_positions[i].remaining_qty <= sm_positions[i].qty

\* C29: after any sequence of opens and full or partial closes, no bucket
\* holds more positions (open or partly closed, not yet fully closed) than
\* its max_positions.
C29_HeldWithinMaxPositions ==
    \A sid \in StrategyIDs :
        Len(HeldOf(sm_positions, sid)) <= strategies[sid].max_positions

\* C30: constructing a new allocator from the saved state restores every
\* bucket, every open or partly closed position and the closed-trade history
\* as they were, and no later save drops a closed trade that an earlier save
\* had written (the file keeps the last 100; the runs here stay far below).
C30_RestartRestoresEverything ==
    [][/\ smLast'.op = "restart" =>
             /\ strategies' = strategies
             /\ sm_positions' = sm_positions
             /\ closed_trades' = closed_trades
       /\ Len(state_file'.closed_trades) >= Len(state_file.closed_trades)]_vars

\* the positions the second process opened itself, after what it loaded
PeerOpened == SubSeq(sm_peer.positions, sm_peer.base + 1, Len(sm_peer.positions))

\* C32: with two processes opening positions on the same ledger, the
\* positions both have been granted in a bucket never cost more than the
\* bucket's capital, and the persisted ledger holds every position either of
\* them was granted (no write is lost).
C32_TwoWritersSerialized ==
    sm_peer.running =>
        /\ \A sid \in StrategyIDs :
              SumCost(HeldOf(sm_positions, sid)) + SumCost(HeldOf(PeerOpened, sid))
                  <= strategies[sid].current_capital
        /\ Len(state_file.positions) = Len(sm_positions) + Len(PeerOpened)

\* C33: when a run of the page and command-line runs interleave on the
\* store, no step other than a (re)initialisation drops a tracked ticker or
\* moves its persisted stop or phase backward.
C33_InterleavedRunsKeepRatchet ==
    [][tsLast'.op # "init_position" =>
          \A t \in TSTickers :
              stops[t] # NoRecord =>
                  /\ stops'[t] # NoRecord
                  /\ stops'[t].stop >= stops[t].stop
                  /\ PhaseRank(stops'[t].phase) >= PhaseRank(stops[t].phase)]_vars

\* C24: calculate_position_size returns the whole number of shares given by
\* the smaller of capital * max-position-% / entry and capital * max-risk-% /
\* |entry - stop| (the first alone when entry and stop coincide, none when
\* there is no entry price), never a negative one, so that the shares cost at
\* most capital * max-position-% and risk at most capital * max-risk-%.
C24_SizeIsSmallerOfCapitalAndRisk ==
    smLast.op = "calculate_position_size" =>
        LET profile == strategies[smLast.strategy_id]
            entry == smLast.entry_price
            dist == Abs(smLast.entry_price - smLast.stop_price)
            cap_usd_x100 == profile.current_capital * profile.max_position_pct
            risk_usd_x1000 == profile.current_capital * profile.max_risk_per_trade_pct
            by_capital == IF entry > 0 THEN cap_usd_x100 \div (100 * entry) ELSE 0
            by_risk == IF dist > 0 THEN risk_usd_x1000 \div (1000 * dist) ELSE by_capital
        IN  /\ smLast.shares >= 0
            /\ smLast.shares * entry * 100 <= cap_usd_x100
            /\ smLast.shares * dist * 1000 <= risk_usd_x1000
            /\ smLast.shares = (IF entry > 0 THEN Min(by_capital, by_risk) ELSE 0)

(***************************************************************************)
(* Claims about the execution loop                                         *)
(***************************************************************************)
\* C5: whenever a step of the loop asks the broker for an entry order
\* (bracket, limit or market buy), that step is the turn of the signal loop
\* in which check_signal approved the signal, and the order carries the
\* ticker and the quantity the check left on the signal.
C5_EntryOrdersOnlyForApproved ==
    [][ \A i \in (Len(broker_orders) + 1)..Len(broker_orders') :
           broker_orders'[i].kind \in EntryKinds =>
              /\ execLast'.op = "process_signal"
              /\ execLast'.result.approved
              /\ broker_orders'[i].ticker = execLast'.result.signal.ticker
              /\ broker_orders'[i].qty = execLast'.result.adjusted_qty
              /\ broker_orders'[i].qty = execLast'.result.signal.qty ]_vars

\* the loop has just sent a bracket order for a signal the check approved
\* after cutting its quantity, in a cycle in which an order was already sent
C5_Witness ==
    /\ execLast.op = "process_signal"
    /\ execLast.sends
    /\ execLast.result.approved
    /\ execLast.result.adjusted_qty < execLast.result.original_qty
    /\ sig_index > 2
    /\ Len(broker_orders) >= 2
    /\ broker_orders[Len(broker_orders)].kind = "bracket"
    /\ broker_orders[Len(broker_orders)].qty = execLast.result.adjusted_qty

\* C17: every step that begins a cycle, of the continuous loop or of
\* run_once, refreshes account and positions, updates the circuit breaker
\* and runs exit monitoring before any entry candidate is processed, and
\* when the halt flag is set after the update it does not enter the signal
\* loop.
C17_MonitorThenEntriesUnlessHalted ==
    [][ execLast'.op \in {"cycle_start", "run_once"} =>
           /\ account' \in {env.account : env \in ExecEnvironments}
           /\ riskLast'.op = "update_daily_pnl"
           /\ execLast'.monitored
           /\ halted' => (~execLast'.enters /\ exec_pc' = "top") ]_vars

\* C18: whenever the loop has ended, it ended through _shutdown: the last
\* step was the shutdown sequence and no accepted entry order is left
\* uncancelled.
C18_InterruptAlwaysShutsDown ==
    exec_pc \in {"stopped", "aborted"} =>
       /\ execLast.op = "shutdown"
       /\ \A i \in 1..Len(broker_orders) :
             ~(broker_orders[i].kind \in EntryKinds /\ broker_orders[i].status = "accepted")

C20_EntryOrdersAdmittedByAllocator ==
    \A i \in 1..Len(broker_orders) :
       (broker_orders[i].kind \in EntryKinds /\ broker_orders[i].status # "error") =>
          /\ TotalTrades > 0
          /\ \E j \in 1..Len(sm_positions) :
                sm_positions[j].ticker = broker_orders[i].ticker

\* C23: with dry_run set the broker is never asked for an order or a
\* position close, and nothing is recorded as traded; every turn of the
\* signal loop still runs the risk check on its candidate and sends nothing.
C23_DryRunSendsNothing ==
    dry_run =>
       /\ broker_orders = <<>>
       /\ active_trades = <<>>
       /\ order_tracker = <<>>
       /\ execLast.op = "process_signal" =>
             /\ ~execLast.sends
             /\ riskLast.op = "check_signal"
             /\ riskLast.result = execLast.result

\* a dry run has just approved a candidate, and a second one in the cycle
C23_Witness ==
    /\ dry_run
    /\ execLast.op = "process_signal"
    /\ execLast.result.approved
    /\ execLast.result.signal.action \in {"BUY", "SCALE_IN"}
    /\ sig_index > 2

\* C28: each pending candidate is evaluated once and sent at most once over
\* the whole run of the loop. Every cycle evaluates the whole queue from its
\* first entry, so the candidates a cycle has evaluated (the sig_index - 1
\* first ones) must have left the queue whenever the loop goes on to another
\* cycle, whether the cycle ended or an exception cut it short.
C28_EvaluatedCandidatesLeaveQueue ==
    [][(exec_pc = "signals" /\ exec_pc' \in {"top", "backoff"}) =>
           Len(pending_signals') <= Len(pending_signals) - (sig_index - 1)]_vars

C13_StopExitsOnEveryTick ==
    [][ (/\ mLast'.op = "poll_cycle"
         /\ mLast'.price > 0
         /\ ~circuit_breaker
         /\ m_engine.state \in {"ENTERED", "TIER1_HIT"}
         /\ mLast'.price <= m_engine.stop_price) =>
           /\ m_engine'.state = "EXITED"
           /\ \E i \in 1..Len(mLast'.calls) :
                 mLast'.calls[i].call \in {"market_sell", "close_position"} ]_vars

\* C14: a poll cycle at the end-of-day cutoff never leaves the engine in
\* ENTERED or TIER1_HIT, whether or not the cycle has a price, the trading
\* window is open, the trade cap is reached or the circuit breaker is set.
C14_ForceExitUnconditional ==
    [][ (mLast'.op = "poll_cycle" /\ is_force_exit_time(Now)) =>
           m_engine'.state \notin {"ENTERED", "TIER1_HIT"} ]_vars

\* C15: a poll cycle sends a market buy only on a weekday between 08:00
\* and 15:00 outside the 11:00-14:00 chop window, and only while
\* trades_today is below max_daily_trades_mancini; the buys accepted since
\* midnight never number more than max_daily_trades_mancini.
C15_EntryOnlyInWindowUnderCap ==
    [][ /\ (mLast'.op = "poll_cycle" /\ Bought(mLast'.calls)) =>
              /\ ~Now.weekend
              /\ Now.h >= 8 /\ Now.h < 15
              /\ ~(Now.h >= 11 /\ Now.h < 14)
              /\ m_engine.trades_today < max_daily_trades_mancini
              /\ m_engine.state = "ACCEPTANCE_WAIT"
        /\ m_entries_today' <= max_daily_trades_mancini ]_vars

\* the engine has just bought for the last time the cap allows today
C15_Witness ==
    /\ mLast.op = "poll_cycle"
    /\ Bought(mLast.calls)
    /\ m_engine.state = "ENTERED"
    /\ m_engine.trades_today = max_daily_trades_mancini - 1
    /\ m_entries_today = max_daily_trades_mancini

\* C21: a flush accepted from NEAR_LEVEL asks for 2 ticks above the session
\* low when it is smaller than 3.00 and for 12 otherwise; and on the handled
\* tick in ACCEPTANCE_WAIT that brings the count of ticks above the session
\* low to that number the engine enters, with the tick as entry price, stop
\* = flush low - 0.50 and a first-target order at entry + 2 * (entry - stop),
\* unless the broker refuses the buy.
C21_EntersWhenAcceptanceComplete ==
    [][ (/\ mLast'.op = "poll_cycle"
         /\ mLast'.price > 0
         /\ ~circuit_breaker
         /\ ~is_force_exit_time(Now)
         /\ is_trading_allowed(Now, m_engine, max_daily_trades_mancini)) =>
           LET price == mLast'.price
               stop == m_engine.flush_low - 50
           IN  /\ (m_engine.state = "NEAR_LEVEL" /\ m_engine'.state = "FLUSH_DETECTED") =>
                     m_engine'.acceptance_candles_needed =
                        IF m_engine.prior_day_low - m_engine'.flush_low < 300 THEN 2 ELSE 12
               /\ (/\ m_engine.state = "ACCEPTANCE_WAIT"
                   /\ price > m_engine.prior_day_low
                   /\ price <= m_engine.flush_low + 500
                   /\ m_engine.acceptance_candles_elapsed + 1
                         >= m_engine.acceptance_candles_needed) =>
                     \/ /\ m_engine'.state = "ENTERED"
                        /\ m_engine'.entry_price = price
                        /\ m_engine'.stop_price = stop
                        /\ \E i \in 1..Len(mLast'.calls) :
                              /\ mLast'.calls[i].call = "limit_sell"
                              /\ mLast'.calls[i].price = price + 2 * (price - stop)
                     \/ /\ m_engine'.state = "IDLE"
                        /\ Bought(mLast'.calls) ]_vars

\* C25: when an order submission of an entry attempt fails, the market buy
\* (no order follows it) or the first-target limit sell (no order id comes
\* back), the engine is in IDLE after the tick and its entry price, stop
\* price, share count and target order id are what they were before it.
C25_FailedSubmissionResetsToIdle ==
    [][ (/\ mLast'.op = "poll_cycle"
         /\ Bought(mLast'.calls)
         /\ (Len(mLast'.calls) = 1 \/ m_engine'.tier1_order_id = "None")) =>
           /\ m_engine'.state = "IDLE"
           /\ m_engine'.entry_price = m_engine.entry_price
           /\ m_engine'.stop_price = m_engine.stop_price
           /\ m_engine'.shares_entered = m_engine.shares_entered
           /\ m_engine'.tier1_order_id = "None" ]_vars


\* C31: at each session boundary (the poll that lands on midnight) the
\* engine is reset: the lifecycle state is IDLE, the flush, acceptance, entry
\* and order fields are cleared and trades_today is 0, so nothing detected
\* on one trading day carries into the next.
C31_MidnightResetsEngine ==
    [][(mLast'.op = "poll_cycle" /\ Now.h = 0 /\ Now.m = 0) =>
           m_engine' = ManciniState(m_engine.prior_day_low)]_vars


\* line 560: the shares the resting sell order at the first target offers
Tier1Shares(shares) == Max(1, TruncDiv(shares * MANCINI.tier1_exit_pct, 100))

\* C36: in every trade, whatever the entry size, the shares offered at the
\* first target plus the shares handed to the runner trailing stop are at
\* most the shares bought: the entry offers Tier1Shares of what it bought,
\* and the runner order placed when that order is gone leaves room for them.
C36_ExitSharesWithinEntry ==
    mLast.op = "poll_cycle" =>
        /\ (Len(mLast.calls) = 2 /\ mLast.calls[1].call = "market_buy") =>
              /\ mLast.calls[2].call = "limit_sell"
              /\ mLast.calls[2].shares = Tier1Shares(mLast.calls[1].shares)
              /\ m_engine.shares_entered = mLast.calls[1].shares
        /\ (Len(mLast.calls) = 1 /\ mLast.calls[1].call = "trailing_stop_sell") =>
              Tier1Shares(m_engine.shares_entered) + mLast.calls[1].shares
                  <= m_engine.shares_entered


\* the entry orders the broker has accepted and that are still waiting
UnfilledEntries ==
    {i \in 1..Len(broker_orders) :
        broker_orders[i].status = "accepted" /\ broker_orders[i].kind \in EntryKinds}

\* C40: across cycles, the broker positions the loop last saw plus the
\* entry orders it has submitted and that have not filled never exceed
\* max_open_positions.
C40_PositionsPlusEntriesWithinMax ==
    Len(positions) + Cardinality(UnfilledEntries) <= riskConfig.max_open_positions

=============================================================================
